---- MODULE Spec2Model ----
(***************************************************************************)
(* Claudestine: the workflow executor (workflow.py), the Claude runner     *)
(* (runner.py) and the key listener (ui/keyboard.py) as one state machine. *)
(* The execution loop and the listener thread are two processes; every     *)
(* statement of either that reads or writes a field shared between the two *)
(* is a step of its own, so that all their interleavings are explored.     *)
(***************************************************************************)
EXTENDS Integers, Sequences, FiniteSets, TLC

VARIABLES
    workflow,        \* self.workflow.steps (read-only after construction)
    phase,           \* local `phase` of execute
    step_index,      \* local `step_index` of execute
    pc,              \* position of the execution loop
    pending_action,  \* WorkflowExecutor._pending_action
    paused,          \* Console._paused
    manual_mode,     \* Console._manual_mode
    interrupted,     \* ClaudeRunner._interrupted
    session_id,      \* ClaudeRunner._session_id
    kb_running,      \* KeyboardController._running
    lpc,             \* position of the listener thread inside _handle_key_action
    lact,            \* the `action` argument of the running _handle_key_action
    proc,            \* the child process in flight: none, claude, shell, manual
    cmd,             \* resume argument of the command (local `cmd` of run) of the invocation in flight
    result,          \* the ClaudeResult of the last dispatch
    int_seen,        \* value of is_interrupted() read at workflow.py:122
    plan_complete,   \* local `plan_complete` of execute
    outcome,         \* how execute ended: none, success, step_failed, max_phases
    retry,           \* history: <<phase, step_index>> of an interrupted dispatch awaiting its retry
    returned,        \* history: token returned by the last agent invocation since the last clear
    cleared,         \* history: clear_session() ran and no agent invocation was launched since
    pause_hold,      \* history: a pause key was pressed during a step invocation: held, then resumed
    last_dispatched, \* history: step_index of the last dispatch of the current phase, -1 before the first
    manual_req,      \* history: a MANUAL intent was stored, and since then no key was handled and manual mode was not entered
    rerun,           \* history: the interrupted dispatch awaiting its retry is a shell step's, and run_shell had run all its commands
    rpc,             \* position of a direct call of ClaudeRunner.run or run_shell
    stop_patterns,   \* argument `stop_patterns` of run
    commands,        \* argument `commands` of run_shell
    skip_if_clean,   \* argument `skip_if_clean` of run_shell
    all_output,      \* local `all_output` of run and run_shell
    stop_reason,     \* local `stop_reason` of run
    cmd_index,       \* position of `for cmd in commands` in run_shell
    child,           \* the child of the call: none, running, exited (process.wait() returned)
    run_result,      \* the ClaudeResult the call returned
    stream,          \* history: the lines the children of the call have written so far
    started,         \* history: the commands run_shell has started so far
    exit_codes,      \* history: the exit codes of the commands run_shell has waited for
    tree,            \* history: what `git status --porcelain` reported to run_shell
    current_step_num, \* Console._current_step_num, the displayed step counter
    progress,        \* completed count of the console's progress bar (Console._main_task)
    auto_push,       \* RunConfig.auto_push (config.py:81)
    variables,       \* WorkflowExecutor.variables (workflow.py:51-55)
    allowed_tools,   \* ClaudeRunner.allowed_tools
    exec_step,       \* the `step` argument of the last _execute_claude_step or _execute_shell_step
    commit_message,  \* what generate_commit_message returned while exec_step was executed
    shell_commands,  \* the `commands` passed to run_shell while exec_step was executed
    cmd_tools,       \* --allowedTools argument of the command launched while exec_step was executed
    opc,             \* position of Orchestrator.run
    auto_commit,     \* OrchestratorConfig.auto_commit
    iteration,       \* local `iteration` of Orchestrator.run
    should_stop,     \* Orchestrator._should_stop
    state,           \* Orchestrator.state: None, or its is_running, should_stop, stop_reason
    orch_session_id, \* Orchestrator._session_id
    plan,            \* local `plan` of Orchestrator.run: its phases completed and in all
    impl_result,     \* local `impl_result` of Orchestrator.run: its status
    impl_cmd,        \* resume argument of the command of the last _run_implement_plan
    run_ret,         \* what Orchestrator.run returned
    exit_path,       \* history: the statement through which Orchestrator.run left its loop
    stop_given,      \* history: the `reason` of the last call of Orchestrator.stop
    captured,        \* history: the session id the result of the last implement invocation carried
    threads,         \* the listener threads KeyboardController.start created: position and key action of each
    kb_thread,       \* KeyboardController._thread
    kmain,           \* position of the loop thread with respect to start() and stop()
    joined           \* history: the threads a stop() that has returned was called on

vars == <<workflow, phase, step_index, pc, pending_action, paused, manual_mode,
          interrupted, session_id, kb_running, lpc, lact, proc, cmd, result,
          int_seen, plan_complete, outcome, retry, returned, cleared,
          pause_hold, last_dispatched, manual_req, rerun, rpc, stop_patterns, commands,
          skip_if_clean, all_output, stop_reason, cmd_index, child, run_result,
          stream, started, exit_codes, tree, current_step_num, progress,
          auto_push, variables, allowed_tools, exec_step, commit_message,
          shell_commands, cmd_tools, opc, auto_commit, iteration, should_stop,
          state, orch_session_id, plan, impl_result, impl_cmd, run_ret,
          exit_path, stop_given, captured, threads, kb_thread, kmain,
          joined>>

-----------------------------------------------------------------------------
(* Bounds and program constants *)

\* workflow.py:86
max_phases == 50

\* phases a run of Spec may start (SpecCeiling runs to max_phases)
MaxPhases == 2

-----------------------------------------------------------------------------
(* Values *)

None == "None"
Absent == "absent"
Tokens == {"a", "b"}

\* KeyAction (ui/keyboard.py)
PAUSE == "PAUSE"
CONTINUE == "CONTINUE"
MANUAL == "MANUAL"
KeyAction == {PAUSE, CONTINUE, MANUAL}

\* Python truthiness of ClaudeRunner._session_id
Truthy(t) == t \notin {None, ""}

NoArg == "NoArg"

\* No interrupted dispatch awaits its retry
NoRetry == <<-1, -1>>

\* ClaudeResult.error (runner.py:23): <<>> stands for None
NoError == <<>>

\* runner.py:127 and 214: str(e)
ExceptionText == <<"exception">>

\* runner.py:204: f"Command failed: {cmd}"
CommandFailed(c) == <<"Command failed: ", c>>

\* workflow.py:347: f"Unknown step type: {step.type}"
UnknownStepType(t) == <<"Unknown step type: ", t>>

\* workflow.py:422 and 428: f"Unknown action: {action_name}", where a
\* missing action is named "(none)"
UnknownAction(a) == <<"Unknown action: ", IF a = None THEN "(none)" ELSE a>>

NoResult == [success |-> TRUE, exit_code |-> 0, session_id |-> None, error |-> NoError]

ClaudeResult(ok, code, sid, err) ==
    [success |-> ok, exit_code |-> code, session_id |-> sid, error |-> err]

Step(t, a, rs) ==
    [type |-> t, action |-> a, require_success |-> rs, skip_if_clean |-> FALSE]

\* The step with skip_if_clean: true (config.py:37)
SkipIfClean(step) == [step EXCEPT !.skip_if_clean = TRUE]

\* The workflow of the spec's scenario: agent prompt, child commands, clear-session
ScenarioWorkflow ==
    << Step("claude", None, FALSE), Step("shell", None, FALSE),
       Step("internal", "clear_session", FALSE) >>

Workflows ==
    { ScenarioWorkflow,
      << Step("claude", None, TRUE), Step("shell", None, FALSE) >>,
      << Step("shell", None, TRUE), Step("internal", "show_changes", FALSE) >>,
      << Step("internal", "bogus", FALSE), Step("internal", "clear_session", TRUE) >>,
      << Step("other", None, FALSE), Step("internal", None, TRUE) >> }

\* StepType (config.py:11-16); a Step assigned a type after validation, or
\* built without it, may hold any other value
StepType == {"claude", "shell", "internal"}

N == Len(workflow)

-----------------------------------------------------------------------------
(* runner.py: the stream protocol and the session token *)

\* A streamed line, as far as the session token is concerned: an init event,
\* another JSON object, non-JSON text, or JSON that is not an object; sid is
\* the value of its session_id field (a token, "", None for JSON null) or
\* Absent.
Lines ==
    [kind : {"init", "json"}, sid : Tokens \cup {"", None, Absent}]
    \cup [kind : {"text"}, sid : Tokens \cup {Absent}]
    \cup [kind : {"scalar"}, sid : {Absent}]

\* _format_stream_event: an init event stores data.get("session_id", "")
FormatStreamEvent(line, sid) ==
    IF line.kind = "init"
    THEN (IF line.sid = Absent THEN "" ELSE line.sid)
    ELSE sid

\* _format_line catches json.JSONDecodeError only. _format_stream_event raises
\* TypeError at session_id[:8] when session_id is null, AttributeError at
\* data.get when the JSON value is not an object (kind "scalar"), and
\* AttributeError, TypeError or ValueError on a field of the wrong type
\* (kind "badfields": content items that are not objects, a cost that is not
\* a number).
FormatRaises(line) ==
    \/ line.kind = "init" /\ line.sid = None
    \/ line.kind \in {"scalar", "badfields"}

\* _try_extract_session_id: the JSON field when present, else the regex fallback
TryExtractSessionId(line, sid) ==
    IF line.sid = Absent THEN sid ELSE line.sid

\* Mutant of BuildCommand: the resume argument is never passed
BuildCommandFresh(sid) == NoArg

\* _build_command: --resume is passed only for a truthy _session_id
BuildCommand(sid) == IF Truthy(sid) THEN sid ELSE NoArg

\* clear_session
ClearSession == None

\* runner.resume(prompt, output), called at workflow.py:219: an agent
\* invocation that reuses the current continuation token
Resume(sid) == BuildCommand(sid)

-----------------------------------------------------------------------------
(* runner.py: the values of run and run_shell *)

\* lines a call of run or run_shell may read before the child ends
MaxLines == 3

\* commands a call of run_shell may be given
MaxCommands == 3

\* Characters of a streamed line and of a stop pattern
Chars == {"d", "D", "f", "F", "x"}

\* re.IGNORECASE and str.lower(): characters are compared in lower case
Lower(c) ==
    CASE c = "D" -> "d" [] c = "F" -> "f" [] c = "P" -> "p" [] c = "C" -> "c"
      [] c = "M" -> "m" [] c = "X" -> "x" [] OTHER -> c

LowerSeq(text) == [i \in 1..Len(text) |-> Lower(text[i])]

\* re.search(pattern, line, re.IGNORECASE), for a pattern without
\* metacharacters: the pattern occurs somewhere in the line
Search(pattern, text) ==
    \E i \in 1..(Len(text) - Len(pattern) + 1) :
        SubSeq(LowerSeq(text), i, i + Len(pattern) - 1) = LowerSeq(pattern)

Line(k, s, t) == [kind |-> k, sid |-> s, text |-> t]

\* The lines a claude child may write: text is what line.rstrip() leaves of
\* it (empty for a blank line), kind and sid what json.loads makes of it
RunLines ==
    { Line("text", Absent, <<>>),
      Line("text", Absent, <<"x">>),
      Line("text", Absent, <<"D">>),
      Line("text", Absent, <<"F", "d">>),
      Line("init", "a", <<"x">>),
      Line("init", None, <<"x">>),
      Line("json", "b", <<"f">>),
      Line("scalar", Absent, <<"d">>),
      Line("badfields", Absent, <<"x">>) }

\* The lines a shell command may write
ShellLines ==
    { Line("text", Absent, <<>>), Line("text", Absent, <<"x">>),
      Line("text", Absent, <<"d">>) }

Patterns == { <<"d">>, <<"F">> }

\* The values of the argument stop_patterns: None (the empty list behaves
\* alike, line 108) or a list of patterns
StopPatternLists ==
    { <<>> } \cup { <<p>> : p \in Patterns }
    \cup { pq \in Patterns \X Patterns : pq[1] # pq[2] }

CommandTexts == {"echo ok", "exit 1", "echo never"}

\* The values of the argument commands
CommandLists == UNION { [1..n -> CommandTexts] : n \in 0..MaxCommands }

\* Exit codes of a child
ExitCodes == {0, 1, 2}

\* ClaudeResult, runner.py:14-23, with all its fields; <<>> stands for None
NoStopReason == <<>>

RunResult(ok, code, out, sid, stop, err) ==
    [success |-> ok, exit_code |-> code, output |-> out, session_id |-> sid,
     stop_reason |-> stop, error |-> err]

NoRunResult == RunResult(TRUE, 0, <<>>, None, NoStopReason, NoError)

\* line 111: f"Pattern matched: {pattern}"
PatternMatched(pattern) == <<"Pattern matched: ", pattern>>

\* lines 95-98 and 190-191: a line that is empty after rstrip() is skipped
Collect(out, line) == IF line.text = <<>> THEN out ELSE Append(out, line)

\* The indices of the patterns found in a line
Matching(patterns, line) ==
    { i \in 1..Len(patterns) : Search(patterns[i], line.text) }

SetMax(S) == CHOOSE i \in S : \A j \in S : j <= i
SetMin(S) == CHOOSE i \in S : \A j \in S : i <= j

\* lines 108-111: every pattern of the list is tried on the line, and every
\* one that is found assigns stop_reason; the loop has no break
CheckStopPatterns(stop, patterns, line) ==
    IF Matching(patterns, line) = {}
    THEN stop
    ELSE PatternMatched(patterns[SetMax(Matching(patterns, line))])

\* runner.interrupt(), called at workflow.py:182 and 187: the interrupted
\* flag is set and the child in flight, if any, is signalled
Interrupt == TRUE

\* runner.is_interrupted(), called at workflow.py:122: the interrupted flag
IsInterrupted == interrupted

-----------------------------------------------------------------------------
(* workflow.py: _is_plan_complete *)

\* What the plan file holds when it is read: whether the text "100%" occurs,
\* the number of "**Status:** complete" marks and of "## Phase n" headers, or
\* that reading it raises.
MaxPlanPhases == 2

PlanContents ==
    [readable : BOOLEAN, has100 : BOOLEAN,
     completed : 0..MaxPlanPhases, total : 0..MaxPlanPhases]

IsPlanComplete(content) ==
    /\ content.readable
    /\ \/ content.has100
       \/ (content.total > 0 /\ content.completed >= content.total)

-----------------------------------------------------------------------------
(* workflow.py: the values of _execute_claude_step and _execute_shell_step. *)
(* A text is the sequence of its words.                                    *)

\* No step was executed yet
\* A value that is a list or None: None, and the list of some items
NoList == [none |-> TRUE, items |-> <<>>]
List(items) == [none |-> FALSE, items |-> items]

NoStep == [type |-> None, prompt |-> None, commands |-> <<>>, allowed_tools |-> NoList]

\* The invocation was not launched
NotLaunched == <<"not launched">>

\* Step.allowed_tools (config.py:38): None, or a list of tool names
ToolLists == {NoList, List(<<>>), List(<<"Read">>), List(<<"Read", "Bash">>)}

\* Python truthiness of a list or None
ListTruthy(list) == ~list.none /\ list.items # <<>>

\* ",".join(list)
RECURSIVE Join(_)
Join(list) ==
    IF Len(list) <= 1 THEN list
    ELSE <<list[1], ",">> \o Join(Tail(list))

\* workflow.py:364-365: the step's allow-list is stored in the runner when
\* the step specifies one
StepTools(step_tools, runner_tools) ==
    IF ListTruthy(step_tools) THEN step_tools ELSE runner_tools

\* runner.py:238-239: the --allowedTools argument of the command, <<>> when
\* the command has none
BuildCommandTools(tools) == IF ListTruthy(tools) THEN Join(tools.items) ELSE <<>>

\* The agent steps handed to _execute_claude_step: with or without a prompt
ClaudeSteps ==
    [type : {"claude"}, prompt : {None, "prompt"}, commands : {<<>>},
     allowed_tools : ToolLists]

\* workflow.py:397: the words looked for in a command
GitPush == <<"git", "push">>

\* `sub in text`
Contains(text, sub) ==
    \E i \in 0..(Len(text) - Len(sub)) : SubSeq(text, i + 1, i + Len(sub)) = sub

\* The variable a word is a placeholder of, ${key} or {key}
PlaceholderKey(word) ==
    CASE word \in {"${verb}", "{verb}"} -> "verb"
      [] word \in {"${plan_path}", "{plan_path}"} -> "plan_path"
      [] OTHER -> None

\* workflow.py:51-55: plan_path is always bound, the workflow may bind more
BuiltinVariables == [plan_path |-> <<"plan.md">>]

Bindings ==
    { BuiltinVariables,
      [plan_path |-> <<"plan.md">>, verb |-> <<"push">>] }

\* _substitute_variables (workflow.py:431-440): a placeholder of a bound
\* variable is replaced by its value, any other word stays
RECURSIVE SubstituteVariables(_, _)
SubstituteVariables(text, bound) ==
    IF text = <<>> THEN <<>>
    ELSE LET key == PlaceholderKey(Head(text)) IN
         (IF key \in DOMAIN bound THEN bound[key] ELSE <<Head(text)>>)
           \o SubstituteVariables(Tail(text), bound)

\* workflow.py:390-393: cmd.replace("{commit_message}", message)
RECURSIVE ReplaceCommitMessage(_, _)
ReplaceCommitMessage(text, message) ==
    IF text = <<>> THEN <<>>
    ELSE (IF Head(text) = "{commit_message}" THEN message ELSE <<Head(text)>>)
           \o ReplaceCommitMessage(Tail(text), message)

\* What generate_commit_message may return (runner.py:367-412): the message
\* of a clean tree, and that of a tree whose one new file is named "git push"
CommitMessages ==
    { <<"chore:", "no", "changes">>,
      <<"feat(git", "push):", "add", "git", "push">> }

\* workflow.py:387-393: the commands after both substitutions
Substituted(step_commands, bound, message) ==
    [i \in DOMAIN step_commands |->
       ReplaceCommitMessage(SubstituteVariables(step_commands[i], bound), message)]

\* Mutant of NotPublish: only the bare command counts as a publish
NotPublishExact(command) == command # GitPush

\* workflow.py:397: "git push" not in cmd
NotPublish(command) == ~Contains(command, GitPush)

\* workflow.py:396-397: without auto_push the publish commands are dropped
PublishFilter(list, push) == IF ~push THEN SelectSeq(list, NotPublish) ELSE list

\* The commands of the shell steps handed to _execute_shell_step
StepCommandTexts ==
    { <<"git", "add">>, <<"cd", "x;", "git", "push", "origin">>,
      <<"git", "${verb}">>, <<"git", "commit", "{commit_message}">> }

StepCommandLists == UNION { [1..n -> StepCommandTexts] : n \in 0..MaxCommands }

ShellSteps ==
    [type : {"shell"}, prompt : {None}, commands : StepCommandLists,
     allowed_tools : {NoList}]

-----------------------------------------------------------------------------
(* orchestrator.py and models.py: the values of Orchestrator.run *)

\* orchestrator.py:135
max_iterations == 50

\* Orchestrator.state is None (orchestrator.py:113)
NoState == [none |-> TRUE, is_running |-> FALSE, should_stop |-> FALSE,
            stop_reason |-> None]

\* OrchestratorState(plan=plan, config=self.config, is_running=True)
\* (orchestrator.py:125-129; the defaults are at models.py:111-113)
OrchestratorState(running) ==
    [none |-> FALSE, is_running |-> running, should_stop |-> FALSE,
     stop_reason |-> None]

\* A Plan (models.py:39-62) by its phases: how many are COMPLETED, how many
\* there are
Plans ==
    { p \in [completed : 0..MaxPlanPhases, total : 0..MaxPlanPhases] :
        p.completed <= p.total }

\* No plan was parsed yet
NoPlan == [completed |-> 0, total |-> 0]

\* Plan.progress_percentage (models.py:56-62)
ProgressPercentage(p) ==
    IF p.total = 0 THEN 0 ELSE (p.completed * 100) \div p.total

\* The statuses _run_implement_plan returns (orchestrator.py:232-277)
Statuses == {"error", "complete", "low_confidence", "verification_needed", "continue"}

\* The reasons stop() is called with (tui.py:308 and 325)
StopReasons == {"User quit", "User stopped"}

\* Mutant of OrchClearSession: the token is kept
OrchClearSessionKeeps(sid) == sid

\* Orchestrator._clear_session (orchestrator.py:571-573)
OrchClearSession(sid) == None

\* orchestrator.py:217-218: the resume argument of the implement command
OrchBuildCommand(sid) == IF Truthy(sid) THEN sid ELSE NoArg

-----------------------------------------------------------------------------
(* ui/keyboard.py: the values of KeyboardController *)

\* listener threads a run may create
MaxThreads == 3

Thread == 1..MaxThreads

\* KeyboardController._thread is None (keyboard.py:46)
NoHandle == 0

\* A thread start() has not created yet
NoThread == [at |-> "unborn", action |-> None]

-----------------------------------------------------------------------------
(* Initial state: after WorkflowExecutor.__init__, before execute *)

InitEngine(workflows) ==
    /\ workflow \in workflows
    /\ phase = 0
    /\ step_index = 0
    /\ pc = "start"
    /\ pending_action = None
    /\ paused = FALSE
    /\ manual_mode = FALSE
    /\ interrupted = FALSE
    /\ session_id = None
    /\ kb_running = FALSE
    /\ lpc = "idle"
    /\ lact = None
    /\ proc = "none"
    /\ cmd = NoArg
    /\ result = NoResult
    /\ int_seen = FALSE
    /\ plan_complete = FALSE
    /\ outcome = "none"
    /\ retry = NoRetry
    /\ returned = None
    /\ cleared = FALSE
    /\ pause_hold = None
    /\ last_dispatched = -1
    /\ manual_req = FALSE
    /\ rerun = FALSE
    /\ rpc = "idle"
    /\ stop_patterns = <<>>
    /\ commands = <<>>
    /\ skip_if_clean = FALSE
    /\ all_output = <<>>
    /\ stop_reason = NoStopReason
    /\ cmd_index = 1
    /\ child = "none"
    /\ run_result = NoRunResult
    /\ stream = <<>>
    /\ started = <<>>
    /\ exit_codes = <<>>
    /\ tree = "unchecked"
    /\ current_step_num = 0
    /\ progress = 0

\* The step executor before any step: the runner is built without an
\* allow-list (workflow.py:42-44)
InitSteps(pushes, bindings) ==
    /\ auto_push \in pushes
    /\ variables \in bindings
    /\ allowed_tools = NoList
    /\ exec_step = NoStep
    /\ commit_message = <<>>
    /\ shell_commands = <<>>
    /\ cmd_tools = NotLaunched

\* After Orchestrator.__init__ (orchestrator.py:98-115), before run
InitOrchestrator(commits) ==
    /\ opc = "constructed"
    /\ auto_commit \in commits
    /\ iteration = 0
    /\ should_stop = FALSE
    /\ state = NoState
    /\ orch_session_id = None
    /\ plan = NoPlan
    /\ impl_result = None
    /\ impl_cmd = NoArg
    /\ run_ret = FALSE
    /\ exit_path = None
    /\ stop_given = None
    /\ captured = None

\* After KeyboardController.__init__ (keyboard.py:36-46), before start
InitKeyboard ==
    /\ threads = [t \in Thread |-> NoThread]
    /\ kb_thread = NoHandle
    /\ kmain = "idle"
    /\ joined = {}

\* auto_push: true is the default of RunConfig (config.py:81), auto_commit:
\* false that of OrchestratorConfig (models.py:95)
InitWith(workflows) ==
    /\ InitEngine(workflows)
    /\ InitSteps({TRUE}, {BuiltinVariables})
    /\ InitOrchestrator({FALSE})
    /\ InitKeyboard

Init == InitWith(Workflows)

-----------------------------------------------------------------------------
(* workflow.py: execute, one action per statement that touches shared state *)

loopLocals == <<phase, step_index, int_seen, plan_complete, outcome>>
displayVars == <<current_step_num, progress>>
callVars == <<rpc, stop_patterns, commands, skip_if_clean, all_output, stop_reason,
              cmd_index, child, run_result, stream, started, exit_codes, tree>>
consoleVars == <<paused, manual_mode>>
listenerVars == <<lpc, lact>>
runnerVars == <<session_id, proc, cmd, result>>
historyVars == <<retry, returned, cleared, pause_hold, last_dispatched, manual_req,
                 rerun>>
stepVars == <<auto_push, variables, allowed_tools, exec_step, commit_message,
              shell_commands, cmd_tools>>
orchVars == <<opc, auto_commit, iteration, should_stop, state, orch_session_id,
              plan, impl_result, impl_cmd, run_ret, exit_path, stop_given,
              captured>>
threadVars == <<threads, kb_thread, kmain, joined>>

\* What the execution loop, its listener and the direct calls of the runner
\* leave alone: the step executor called on its own, the orchestrator, and
\* the threads of the keyboard controller
sideVars == <<stepVars, orchVars, threadVars>>

\* lines 80-82: the key listener is started
StartListener ==
    /\ pc = "start"
    /\ kb_running' = TRUE
    /\ pc' = "while_phase"
    /\ UNCHANGED <<workflow, sideVars, callVars, loopLocals, pending_action, consoleVars, interrupted,
                   listenerVars, runnerVars, historyVars>>

\* Mutant of WhilePhase: the ceiling test is inclusive, one phase too many
WhilePhaseInclusive(cap) ==
    /\ pc = "while_phase"
    /\ IF phase <= max_phases
       THEN /\ phase <= cap
            /\ phase' = phase + 1
            /\ step_index' = 0
            /\ last_dispatched' = -1
            /\ pc' = "while_step"
            /\ UNCHANGED outcome
       ELSE /\ outcome' = "max_phases"
            /\ pc' = "finally"
            /\ UNCHANGED <<phase, step_index, last_dispatched>>
    /\ UNCHANGED <<workflow, sideVars, callVars, int_seen, plan_complete, pending_action, consoleVars,
                   interrupted, kb_running, listenerVars, runnerVars, retry,
                   returned, cleared, pause_hold, manual_req, rerun>>

\* Mutant of WhilePhase: step_index is not set back for the new phase
WhilePhaseKeepsIndex(cap) ==
    /\ pc = "while_phase"
    /\ IF phase < max_phases
       THEN /\ phase < cap
            /\ phase' = phase + 1
            /\ last_dispatched' = -1
            /\ pc' = "while_step"
            /\ UNCHANGED <<outcome, step_index>>
       ELSE /\ outcome' = "max_phases"
            /\ pc' = "finally"
            /\ UNCHANGED <<phase, step_index, last_dispatched>>
    /\ UNCHANGED <<workflow, sideVars, callVars, int_seen, plan_complete, pending_action, consoleVars,
                   interrupted, kb_running, listenerVars, runnerVars, retry,
                   returned, cleared, pause_hold, manual_req, rerun>>

\* lines 88-94: the phase loop's test, phase += 1, step_index = 0;
\* lines 163-165 when the ceiling is reached. `cap` bounds the phases of a run.
WhilePhase(cap) ==
    /\ pc = "while_phase"
    /\ IF phase < max_phases
       THEN /\ phase < cap
            /\ phase' = phase + 1
            /\ step_index' = 0
            /\ last_dispatched' = -1
            /\ pc' = "while_step"
            /\ UNCHANGED outcome
       ELSE /\ outcome' = "max_phases"
            /\ pc' = "finally"
            /\ UNCHANGED <<phase, step_index, last_dispatched>>
    /\ UNCHANGED <<workflow, sideVars, callVars, int_seen, plan_complete, pending_action, consoleVars,
                   interrupted, kb_running, listenerVars, runnerVars, retry,
                   returned, cleared, pause_hold, manual_req, rerun>>

\* Mutant of WhileStep: the step loop ends one step early
WhileStepEarly ==
    /\ pc = "while_step"
    /\ pc' = IF step_index < N - 1 THEN "check_manual" ELSE "plan_check"
    /\ UNCHANGED <<workflow, sideVars, callVars, loopLocals, pending_action, consoleVars, interrupted,
                   kb_running, listenerVars, runnerVars, historyVars>>

\* line 95: the step loop's test
WhileStep ==
    /\ pc = "while_step"
    /\ pc' = IF step_index < N THEN "check_manual" ELSE "plan_check"
    /\ UNCHANGED <<workflow, sideVars, callVars, loopLocals, pending_action, consoleVars, interrupted,
                   kb_running, listenerVars, runnerVars, historyVars>>

\* line 99: manual mode is entered when the pending action is MANUAL
CheckManual ==
    /\ pc = "check_manual"
    /\ pc' = IF pending_action = MANUAL THEN "manual_stop" ELSE "wait_paused"
    /\ manual_req' = IF pending_action = MANUAL THEN FALSE ELSE manual_req
    /\ UNCHANGED <<workflow, sideVars, callVars, loopLocals, pending_action, consoleVars, interrupted,
                   kb_running, listenerVars, runnerVars, retry, returned, cleared,
                   pause_hold, last_dispatched, rerun>>

\* line 104, first operand: self.console.is_paused()
WaitPaused ==
    /\ pc = "wait_paused"
    /\ pc' = IF paused THEN "wait_pending" ELSE "clear_interrupted"
    /\ UNCHANGED <<workflow, sideVars, callVars, loopLocals, pending_action, consoleVars, interrupted,
                   kb_running, listenerVars, runnerVars, historyVars>>

\* line 104, second operand: self._pending_action != KeyAction.MANUAL
WaitPending ==
    /\ pc = "wait_pending"
    /\ pc' = IF pending_action # MANUAL THEN "wait_continue" ELSE "clear_interrupted"
    /\ UNCHANGED <<workflow, sideVars, callVars, loopLocals, pending_action, consoleVars, interrupted,
                   kb_running, listenerVars, runnerVars, historyVars>>

\* Mutant of WaitContinue: the wait does not look for CONTINUE
WaitContinueDeaf ==
    /\ pc = "wait_continue"
    /\ pc' = "wait_paused"
    /\ UNCHANGED <<workflow, sideVars, callVars, loopLocals, pending_action, consoleVars, interrupted,
                   kb_running, listenerVars, runnerVars, historyVars>>

\* line 105 and line 108: the test for CONTINUE, else sleep and test again
WaitContinue ==
    /\ pc = "wait_continue"
    /\ pc' = IF pending_action = CONTINUE THEN "wait_clear" ELSE "wait_paused"
    /\ UNCHANGED <<workflow, sideVars, callVars, loopLocals, pending_action, consoleVars, interrupted,
                   kb_running, listenerVars, runnerVars, historyVars>>

\* lines 106-107: the intent is cleared and the wait is left
WaitClear ==
    /\ pc = "wait_clear"
    /\ pending_action' = None
    /\ pc' = "clear_interrupted"
    /\ UNCHANGED <<workflow, sideVars, callVars, loopLocals, consoleVars, interrupted, kb_running,
                   listenerVars, runnerVars, historyVars>>

\* line 111: self.runner._interrupted = False
ClearInterrupted ==
    /\ pc = "clear_interrupted"
    /\ interrupted' = FALSE
    /\ pc' = "dispatch"
    /\ UNCHANGED <<workflow, sideVars, callVars, loopLocals, pending_action, consoleVars, kb_running,
                   listenerVars, runnerVars, historyVars>>

\* The step the loop is at (line 96)
CurrentStep == workflow[step_index + 1]

\* Mutant of InternalResult: an action that is not known succeeds
InternalResultLenient(action) == ClaudeResult(TRUE, 0, None, NoError)

\* _execute_internal_step, lines 405-429: the result of an internal action
InternalResult(action) ==
    IF action \in {"clear_session", "show_changes"}
    THEN ClaudeResult(TRUE, 0, None, NoError)
    ELSE ClaudeResult(FALSE, 1, None, UnknownAction(action))

\* _execute_step, lines 341-348: the result for a step of no known type
UnknownTypeResult(t) == ClaudeResult(FALSE, 1, None, UnknownStepType(t))

\* Mutant of InternalSession: clear_session leaves the token in place
InternalSessionKeeps(action, sid) == sid

\* _execute_internal_step, lines 407-409: the action's effect on the token
InternalSession(action, sid) ==
    IF action = "clear_session" THEN ClearSession ELSE sid

\* line 116: _execute_step enters Console.step and dispatches on the step's
\* type. A claude step builds its command and launches the child (Popen may
\* raise: run's except clause, runner.py:126-135); a shell step starts
\* run_shell; an internal step runs to its result at once; a step of any
\* other type gets a failure as its result (lines 341-348).
Dispatch ==
    /\ pc = "dispatch"
    /\ retry' = NoRetry
    /\ pause_hold' = None
    /\ last_dispatched' = step_index
    /\ rerun' = FALSE
    /\ CASE CurrentStep.type = "claude" ->
              /\ \/ /\ cmd' = BuildCommand(session_id)
                    /\ proc' = "claude"
                    /\ pc' = "claude_running"
                    /\ cleared' = FALSE
                    /\ UNCHANGED <<result, returned>>
                 \/ /\ cmd' = NoArg
                    /\ result' = ClaudeResult(FALSE, -1, None, ExceptionText)
                    /\ returned' = None
                    /\ pc' = "check_interrupted"
                    /\ UNCHANGED <<proc, cleared>>
              /\ UNCHANGED session_id
         [] CurrentStep.type = "shell" ->
              /\ proc' = "shell"
              /\ pc' = "shell_running"
              /\ UNCHANGED <<session_id, cmd, result, returned, cleared>>
         [] CurrentStep.type = "internal" ->
              /\ session_id' = InternalSession(CurrentStep.action, session_id)
              /\ result' = InternalResult(CurrentStep.action)
              /\ returned' = IF CurrentStep.action = "clear_session" THEN None ELSE returned
              /\ cleared' = IF CurrentStep.action = "clear_session" THEN TRUE ELSE cleared
              /\ pc' = "check_interrupted"
              /\ UNCHANGED <<proc, cmd>>
         [] OTHER ->
              /\ result' = UnknownTypeResult(CurrentStep.type)
              /\ pc' = "check_interrupted"
              /\ UNCHANGED <<session_id, proc, cmd, returned, cleared>>
    /\ UNCHANGED <<workflow, sideVars, callVars, loopLocals, pending_action, consoleVars,
                   interrupted, kb_running, listenerVars, manual_req>>

\* Where an agent invocation returns to: the scheduled step's check of the
\* interrupted flag, or the end of _handle_manual_mode
AfterAgent == IF proc = "manual" THEN "manual_done" ELSE "check_interrupted"

\* runner.py:92-114: one streamed line of an agent invocation goes through
\* _format_line and _try_extract_session_id; an exception raised by
\* _format_line ends the invocation in run's except clause (lines 126-135).
AgentLine ==
    /\ proc \in {"claude", "manual"}
    /\ \E line \in Lines :
         LET formatted == FormatStreamEvent(line, session_id) IN
         IF FormatRaises(line)
         THEN /\ session_id' = formatted
              /\ result' = IF proc = "claude" THEN ClaudeResult(FALSE, -1, None, ExceptionText)
                           ELSE result
              /\ returned' = None
              /\ proc' = "none"
              /\ cmd' = NoArg
              /\ pc' = AfterAgent
         ELSE /\ session_id' = TryExtractSessionId(line, formatted)
              /\ UNCHANGED <<result, returned, proc, cmd, pc>>
    /\ UNCHANGED <<workflow, sideVars, callVars, loopLocals, pending_action, consoleVars, interrupted,
                   kb_running, listenerVars, retry, cleared, pause_hold,
                   last_dispatched, manual_req, rerun>>

\* runner.py:116-124: the child exits and run returns its result
AgentExit ==
    /\ proc \in {"claude", "manual"}
    /\ \E exit_code \in {0, 1} :
         result' = IF proc = "claude"
                   THEN ClaudeResult(exit_code = 0, exit_code, session_id, NoError)
                   ELSE result
    /\ returned' = session_id
    /\ proc' = "none"
    /\ cmd' = NoArg
    /\ pc' = AfterAgent
    /\ UNCHANGED <<workflow, sideVars, callVars, loopLocals, pending_action, consoleVars, interrupted,
                   kb_running, listenerVars, session_id, retry, cleared,
                   pause_hold, last_dispatched, manual_req, rerun>>

\* runner.py:137-221: run_shell returns success, the failing command's exit
\* code, or -1 when starting a command raised
ShellExit ==
    /\ proc = "shell"
    /\ \E exit_code \in {0, 1, -1} :
         result' = ClaudeResult(exit_code = 0, exit_code, None,
                                CASE exit_code = 0 -> NoError
                                  [] exit_code = 1 -> CommandFailed("exit 1")
                                  [] OTHER -> ExceptionText)
    /\ proc' = "none"
    /\ pc' = "check_interrupted"
    /\ UNCHANGED <<workflow, sideVars, callVars, loopLocals, pending_action, consoleVars, interrupted,
                   kb_running, listenerVars, session_id, cmd, historyVars>>

\* run_shell returned success for the shell step at step_index, which has
\* no skip_if_clean: every command was run and exited with 0
\* (runner.py:173-221)
AllCommandsRan ==
    CurrentStep.type = "shell" /\ ~CurrentStep.skip_if_clean /\ result.success

\* Mutant of CheckInterrupted: an interrupted dispatch advances like a
\* for-loop over the steps would
CheckInterruptedSkips ==
    /\ pc = "check_interrupted"
    /\ int_seen' = IsInterrupted
    /\ IF IsInterrupted
       THEN /\ retry' = <<phase, step_index>>
            /\ rerun' = AllCommandsRan
            /\ result' = NoResult
            /\ step_index' = step_index + 1
            /\ pc' = "while_step"
       ELSE /\ pc' = "evaluate"
            /\ UNCHANGED <<retry, rerun, result, step_index>>
    /\ UNCHANGED <<workflow, sideVars, callVars, phase, plan_complete, outcome,
                   pending_action, consoleVars, interrupted, kb_running,
                   listenerVars, session_id, proc, cmd, returned, cleared,
                   pause_hold, last_dispatched, manual_req>>

\* Mutant of CheckInterrupted: the result is looked at before the
\* interrupted flag
CheckInterruptedLate ==
    /\ pc = "check_interrupted"
    /\ int_seen' = IsInterrupted
    /\ IF IsInterrupted /\ (result.success \/ ~CurrentStep.require_success)
       THEN /\ retry' = <<phase, step_index>>
            /\ rerun' = AllCommandsRan
            /\ result' = NoResult
            /\ pc' = "while_step"
            /\ UNCHANGED outcome
       ELSE IF IsInterrupted
       THEN /\ outcome' = "step_failed"
            /\ pc' = "finally"
            /\ UNCHANGED <<retry, rerun, result>>
       ELSE /\ pc' = "evaluate"
            /\ UNCHANGED <<retry, rerun, result, outcome>>
    /\ UNCHANGED <<workflow, sideVars, callVars, phase, step_index, plan_complete,
                   pending_action, consoleVars, interrupted, kb_running,
                   listenerVars, session_id, proc, cmd, returned, cleared,
                   pause_hold, last_dispatched, manual_req>>

\* lines 122-130: an interrupted dispatch is not evaluated; `continue` keeps
\* step_index, and the result goes out of scope
CheckInterrupted ==
    /\ pc = "check_interrupted"
    /\ int_seen' = IsInterrupted
    /\ IF IsInterrupted
       THEN /\ retry' = <<phase, step_index>>
            /\ rerun' = AllCommandsRan
            /\ result' = NoResult
            /\ pc' = "while_step"
       ELSE /\ pc' = "evaluate"
            /\ UNCHANGED <<retry, rerun, result>>
    /\ UNCHANGED <<workflow, sideVars, callVars, phase, step_index, plan_complete, outcome,
                   pending_action, consoleVars, interrupted, kb_running,
                   listenerVars, session_id, proc, cmd, returned, cleared,
                   pause_hold, last_dispatched, manual_req>>

\* Mutant of Evaluate: every failed step ends the run
EvaluateStrict ==
    /\ pc = "evaluate"
    /\ IF ~result.success
       THEN /\ outcome' = "step_failed"
            /\ pc' = "finally"
            /\ UNCHANGED step_index
       ELSE /\ step_index' = step_index + 1
            /\ pc' = "while_step"
            /\ UNCHANGED outcome
    /\ result' = NoResult
    /\ UNCHANGED <<workflow, sideVars, callVars, phase, int_seen, plan_complete, pending_action,
                   consoleVars, interrupted, kb_running, listenerVars,
                   session_id, proc, cmd, historyVars>>

\* Mutant of Evaluate: no failed step ends the run
EvaluateLenient ==
    /\ pc = "evaluate"
    /\ step_index' = step_index + 1
    /\ pc' = "while_step"
    /\ result' = NoResult
    /\ UNCHANGED <<workflow, sideVars, callVars, phase, int_seen, plan_complete, outcome,
                   pending_action, consoleVars, interrupted, kb_running,
                   listenerVars, session_id, proc, cmd, historyVars>>

\* lines 142-152: a failed step that requires success ends the run with
\* False; every other step advances step_index
Evaluate ==
    /\ pc = "evaluate"
    /\ IF ~result.success /\ CurrentStep.require_success
       THEN /\ outcome' = "step_failed"
            /\ pc' = "finally"
            /\ UNCHANGED step_index
       ELSE /\ step_index' = step_index + 1
            /\ pc' = "while_step"
            /\ UNCHANGED outcome
    /\ result' = NoResult
    /\ UNCHANGED <<workflow, sideVars, callVars, phase, int_seen, plan_complete, pending_action,
                   consoleVars, interrupted, kb_running, listenerVars,
                   session_id, proc, cmd, historyVars>>

\* lines 155-161: the plan file is read after the phase's last step
PlanCheck ==
    /\ pc = "plan_check"
    /\ \E content \in PlanContents :
         /\ plan_complete' = IsPlanComplete(content)
         /\ IF IsPlanComplete(content)
            THEN /\ outcome' = "success"
                 /\ pc' = "finally"
            ELSE /\ pc' = "while_phase"
                 /\ UNCHANGED outcome
    /\ UNCHANGED <<workflow, sideVars, callVars, phase, step_index, int_seen, pending_action,
                   consoleVars, interrupted, kb_running, listenerVars,
                   runnerVars, historyVars>>

\* Mutant of Finally: the listener is left running
FinallyKeepsListener ==
    /\ pc = "finally"
    /\ pc' = "done"
    /\ UNCHANGED <<workflow, sideVars, callVars, loopLocals, pending_action, consoleVars, interrupted,
                   kb_running, listenerVars, runnerVars, historyVars>>

\* lines 167-170: the finally clause stops the listener
Finally ==
    /\ pc = "finally"
    /\ kb_running' = FALSE
    /\ pc' = "done"
    /\ UNCHANGED <<workflow, sideVars, callVars, loopLocals, pending_action, consoleVars, interrupted,
                   listenerVars, runnerVars, historyVars>>

-----------------------------------------------------------------------------
(* workflow.py: _handle_manual_mode, called at line 100 *)

\* lines 194-198: the listener is stopped (join with a timeout: a handler
\* that is running may outlive it)
ManualStop ==
    /\ pc = "manual_stop"
    /\ kb_running' = FALSE
    /\ pc' = "manual_ask"
    /\ UNCHANGED <<workflow, sideVars, callVars, loopLocals, pending_action, consoleVars, interrupted,
                   listenerVars, runnerVars, historyVars>>

\* lines 200-206: the operator is asked; set_manual_mode(False)
ManualAsk ==
    /\ pc = "manual_ask"
    /\ manual_mode' = FALSE
    /\ pc' = "manual_unpause"
    /\ UNCHANGED <<workflow, sideVars, callVars, loopLocals, pending_action, paused, interrupted,
                   kb_running, listenerVars, runnerVars, historyVars>>

\* line 207: set_paused(False)
ManualUnpause ==
    /\ pc = "manual_unpause"
    /\ paused' = FALSE
    /\ pc' = "manual_start"
    /\ UNCHANGED <<workflow, sideVars, callVars, loopLocals, pending_action, manual_mode, interrupted,
                   kb_running, listenerVars, runnerVars, historyVars>>

\* lines 210-214: the display resumes and the listener is restarted
ManualStart ==
    /\ pc = "manual_start"
    /\ kb_running' = TRUE
    /\ pc' = "manual_prompt"
    /\ UNCHANGED <<workflow, sideVars, callVars, loopLocals, pending_action, consoleVars, interrupted,
                   listenerVars, runnerVars, historyVars>>

\* lines 216-222: a non-empty answer is sent with runner.resume inside a
\* transient Console.step, which launches an agent invocation on the current
\* session; an empty answer launches nothing
ManualPrompt ==
    /\ pc = "manual_prompt"
    /\ \E prompt \in BOOLEAN :
         IF prompt
         THEN /\ cmd' = Resume(session_id)
              /\ proc' = "manual"
              /\ cleared' = FALSE
              /\ pc' = "manual_running"
         ELSE /\ pc' = "manual_done"
              /\ UNCHANGED <<cmd, proc, cleared>>
    /\ UNCHANGED <<workflow, sideVars, callVars, loopLocals, pending_action,
                   consoleVars, interrupted, kb_running, listenerVars, session_id,
                   result, retry, returned, pause_hold, last_dispatched, manual_req,
                   rerun>>

\* line 101: the intent is cleared after manual mode
ManualDone ==
    /\ pc = "manual_done"
    /\ pending_action' = None
    /\ pc' = "wait_paused"
    /\ UNCHANGED <<workflow, sideVars, callVars, loopLocals, consoleVars, interrupted, kb_running,
                   listenerVars, runnerVars, historyVars>>

-----------------------------------------------------------------------------
(* ui/keyboard.py: _listen_loop, and workflow.py: _handle_key_action,     *)
(* run by the listener thread                                             *)

\* The keys the terminal may deliver: the control keys in either case, and
\* keys that are not control keys
Keys == {"p", "P", "c", "C", "m", "M", "x", "X"}

\* Mutant of KeyChar: the key is compared as it was typed
KeyCharExact(key) == key

\* keyboard.py:72: str(key).lower()
KeyChar(key) == Lower(key)

\* keyboard.py:74-79: the action of a character, None when it has none
KeyToAction(char) ==
    CASE char = "p" -> PAUSE
      [] char = "c" -> CONTINUE
      [] char = "m" -> MANUAL
      [] OTHER -> None

\* The keys of a set of actions
KeysOf(actions) == { key \in Keys : KeyToAction(KeyChar(key)) \in actions }

\* keyboard.py:64-79 and workflow.py:179: a key is read while the listener
\* runs; for a control key the handler is called and stores the intent, any
\* other key is dropped
OnKey(key) ==
    /\ kb_running
    /\ lpc = "idle"
    /\ LET action == KeyToAction(KeyChar(key)) IN
         IF action = None
         THEN UNCHANGED <<pending_action, lact, lpc, pause_hold, manual_req>>
         ELSE /\ pending_action' = action
              /\ lact' = action
              /\ manual_req' = (action = MANUAL)
              /\ lpc' = IF action = CONTINUE THEN "set_paused" ELSE "interrupt"
              /\ pause_hold' =
                   CASE action = PAUSE /\ proc \in {"claude", "shell"} -> "held"
                     [] action = CONTINUE /\ pause_hold = "held" -> "resumed"
                     [] OTHER -> pause_hold
    /\ UNCHANGED <<workflow, sideVars, callVars, loopLocals, pc, consoleVars, interrupted, kb_running,
                   runnerVars, retry, returned, cleared, last_dispatched, rerun>>

KeyPress(keys) == \E key \in keys : OnKey(key)

\* workflow.py:182 and 187: self.runner.interrupt()
HandlerInterrupt ==
    /\ lpc = "interrupt"
    /\ interrupted' = Interrupt
    /\ lpc' = "set_paused"
    /\ UNCHANGED <<workflow, sideVars, callVars, loopLocals, pc, pending_action, consoleVars,
                   kb_running, lact, runnerVars, historyVars>>

\* workflow.py:183, 185 and 188: self.console.set_paused(...)
HandlerSetPaused ==
    /\ lpc = "set_paused"
    /\ paused' = (lact # CONTINUE)
    /\ lpc' = IF lact = MANUAL THEN "set_manual" ELSE "idle"
    /\ lact' = IF lact = MANUAL THEN lact ELSE None
    /\ UNCHANGED <<workflow, sideVars, callVars, loopLocals, pc, pending_action, manual_mode,
                   interrupted, kb_running, runnerVars, historyVars>>

\* Mutant of HandlerSetManual: the handler itself sends the manual prompt,
\* from the listener thread
HandlerSetManualSends ==
    /\ lpc = "set_manual"
    /\ manual_mode' = TRUE
    /\ proc' = "manual"
    /\ lpc' = "idle"
    /\ lact' = None
    /\ UNCHANGED <<workflow, sideVars, callVars, loopLocals, pc, pending_action, paused,
                   interrupted, kb_running, session_id, cmd, result, historyVars>>

\* workflow.py:189: self.console.set_manual_mode(True)
HandlerSetManual ==
    /\ lpc = "set_manual"
    /\ manual_mode' = TRUE
    /\ lpc' = "idle"
    /\ lact' = None
    /\ UNCHANGED <<workflow, sideVars, callVars, loopLocals, pc, pending_action, paused, interrupted,
                   kb_running, runnerVars, historyVars>>

-----------------------------------------------------------------------------
(* workflow.py: an exception that leaves the loop                          *)

\* The positions inside _handle_manual_mode
ManualPcs ==
    {"manual_stop", "manual_ask", "manual_unpause", "manual_start",
     "manual_prompt", "manual_running"}

\* lines 84-170: an exception raised inside the try block and not caught
\* there (KeyboardInterrupt from Ctrl+C anywhere; git status at
\* runner.py:157 or questionary at workflow.py:200 raising) unwinds the call
\* in progress and goes to the finally clause
Raise ==
    /\ pc \notin {"start", "finally", "done"}
    /\ outcome' = IF pc \in ManualPcs THEN "raised_manual" ELSE "raised"
    /\ pc' = "finally"
    /\ proc' = "none"
    /\ cmd' = NoArg
    /\ UNCHANGED <<workflow, sideVars, callVars, phase, step_index, int_seen, plan_complete,
                   pending_action, consoleVars, interrupted, kb_running,
                   listenerVars, session_id, result, historyVars>>

\* runner.py:156-162, reached from workflow.py:399: for a shell step with
\* skip_if_clean, `git status --porcelain` is run outside any try block;
\* when it cannot be started (no git executable, no working directory) the
\* exception leaves run_shell, _execute_step and the loop
ShellRaises ==
    /\ pc = "shell_running"
    /\ proc = "shell"
    /\ CurrentStep.skip_if_clean
    /\ outcome' = "raised"
    /\ pc' = "finally"
    /\ proc' = "none"
    /\ UNCHANGED <<workflow, sideVars, callVars, phase, step_index, int_seen, plan_complete,
                   pending_action, consoleVars, interrupted, kb_running,
                   listenerVars, session_id, cmd, result, historyVars>>

-----------------------------------------------------------------------------
(* ui/console.py: the step counter and the progress bar. The loop writes   *)
(* them and never reads them: a step of the loop either is shown on the    *)
(* display, or is taken with the display left out of the picture.          *)

\* a step counter the display may reach
MaxStepNum == 4

\* Console.step (ui/console.py:309-361), entry, lines 325-326
StepEnter(num, transient) == IF transient THEN num ELSE num + 1

\* Console.step, exit, lines 349-353: the counter is rolled back for an
\* interrupted step that is not transient
StepExit(num, transient, intr) == IF intr /\ ~transient THEN num - 1 ELSE num

\* Console.step, exit, lines 357-359: the progress bar advances for a step
\* that is neither interrupted nor transient
StepAdvance(prog, transient, intr) == IF ~intr /\ ~transient THEN prog + 1 ELSE prog

NoDisplay(step) == step /\ UNCHANGED displayVars

\* Console.new_phase (lines 201-215), called at workflow.py:90
WhilePhaseShown(cap) ==
    /\ WhilePhase(cap)
    /\ IF phase' # phase
       THEN current_step_num' = 0 /\ progress' = 0
       ELSE UNCHANGED displayVars

\* workflow.py:334: _execute_step runs the step inside Console.step, which
\* is left at once unless an invocation was launched
DispatchShown ==
    /\ current_step_num < MaxStepNum
    /\ Dispatch
    /\ IF proc' # "none"
       THEN /\ current_step_num' = StepEnter(current_step_num, FALSE)
            /\ UNCHANGED progress
       ELSE /\ current_step_num' =
                  StepExit(StepEnter(current_step_num, FALSE), FALSE, IsInterrupted)
            /\ progress' = StepAdvance(progress, FALSE, IsInterrupted)

\* Console.step is left when the invocation returns: the step's (workflow.py:
\* 334), or the manual prompt's, which is transient (workflow.py:218)
ReturnShown(step) ==
    /\ step
    /\ IF proc' = "none"
       THEN /\ current_step_num' =
                  StepExit(current_step_num, proc = "manual", IsInterrupted)
            /\ progress' = StepAdvance(progress, proc = "manual", IsInterrupted)
       ELSE UNCHANGED displayVars

\* Console.resume (lines 217-249), called at workflow.py:210: a new progress
\* bar whose completed count is the step counter
ManualStartShown ==
    /\ ManualStart
    /\ progress' = current_step_num
    /\ UNCHANGED current_step_num

\* Mutant of ManualStepEntered: transient is not passed
ManualStepEnteredCounted ==
    /\ current_step_num' = StepEnter(current_step_num, FALSE)
    /\ UNCHANGED progress

\* workflow.py:218: Console.step("Manual prompt", transient=True) is entered
ManualStepEntered ==
    /\ current_step_num' = StepEnter(current_step_num, TRUE)
    /\ UNCHANGED progress

ManualPromptShown ==
    /\ ManualPrompt
    /\ IF proc' = "manual" THEN ManualStepEntered ELSE UNCHANGED displayVars

-----------------------------------------------------------------------------
(* runner.py: run and run_shell, called on a ClaudeRunner of their own     *)

executorVars == <<workflow, loopLocals, pc, pending_action, consoleVars,
                  displayVars, interrupted, kb_running, listenerVars, proc,
                  result, historyVars>>

\* run, lines 64-89: the command is built and the child launched; Popen may
\* raise, which the except clause (lines 126-135) turns into a result
CallRun ==
    /\ rpc = "idle"
    /\ \E patterns \in StopPatternLists : stop_patterns' = patterns
    /\ cmd' = BuildCommand(session_id)
    /\ \/ /\ child' = "running"
          /\ rpc' = "run_reading"
          /\ UNCHANGED run_result
       \/ /\ rpc' = "run_returned"
          /\ run_result' = RunResult(FALSE, -1, <<>>, None, NoStopReason, ExceptionText)
          /\ UNCHANGED child
    /\ UNCHANGED <<executorVars, sideVars, session_id, commands, skip_if_clean, all_output,
                   stop_reason, cmd_index, stream, started, exit_codes, tree>>

\* run, lines 92-114: one line is read. An empty line is skipped; any other
\* is appended to all_output, formatted, tried against the stop patterns,
\* and searched for a session id. An exception of _format_line leaves the
\* loop for the except clause (lines 126-135), which returns without
\* process.wait().
RunLine ==
    /\ rpc = "run_reading"
    /\ Len(stream) < MaxLines
    /\ \E line \in RunLines :
         /\ stream' = Append(stream, line)
         /\ all_output' = Collect(all_output, line)
         /\ IF line.text = <<>>
            THEN UNCHANGED <<session_id, stop_reason, rpc, run_result>>
            ELSE IF FormatRaises(line)
            THEN /\ session_id' = FormatStreamEvent(line, session_id)
                 /\ rpc' = "run_returned"
                 /\ run_result' = RunResult(FALSE, -1, all_output', None,
                                            NoStopReason, ExceptionText)
                 /\ UNCHANGED stop_reason
            ELSE /\ stop_reason' = CheckStopPatterns(stop_reason, stop_patterns, line)
                 /\ session_id' = TryExtractSessionId(line,
                                      FormatStreamEvent(line, session_id))
                 /\ UNCHANGED <<rpc, run_result>>
    /\ UNCHANGED <<executorVars, sideVars, cmd, stop_patterns, commands, skip_if_clean,
                   cmd_index, child, started, exit_codes, tree>>

\* run, lines 116-124: end of stream, process.wait(), the result
RunExit ==
    /\ rpc = "run_reading"
    /\ \E exit_code \in ExitCodes :
         run_result' = RunResult(exit_code = 0, exit_code, all_output, session_id,
                                 stop_reason, NoError)
    /\ child' = "exited"
    /\ rpc' = "run_returned"
    /\ UNCHANGED <<executorVars, sideVars, session_id, cmd, stop_patterns, commands,
                   skip_if_clean, all_output, stop_reason, cmd_index, stream,
                   started, exit_codes, tree>>

\* run_shell, lines 154-156: the call and the test of skip_if_clean
CallRunShell ==
    /\ rpc = "idle"
    /\ \E cs \in CommandLists : commands' = cs
    /\ \E skip \in BOOLEAN :
         /\ skip_if_clean' = skip
         /\ rpc' = IF skip THEN "shell_check" ELSE "shell_next"
    /\ UNCHANGED <<executorVars, sideVars, session_id, cmd, stop_patterns, all_output,
                   stop_reason, cmd_index, child, run_result, stream, started,
                   exit_codes, tree>>

\* Mutant of ShellCheck: the answer of git status is ignored
ShellCheckIgnored ==
    /\ rpc = "shell_check"
    /\ \E report \in {"clean", "dirty", "norepo", "raises"} :
         /\ tree' = report
         /\ rpc' = "shell_next"
         /\ UNCHANGED run_result
    /\ UNCHANGED <<executorVars, sideVars, session_id, cmd, stop_patterns, commands,
                   skip_if_clean, all_output, stop_reason, cmd_index, child,
                   stream, started, exit_codes>>

\* run_shell, lines 157-171: git status --porcelain is run, outside any try:
\* it may raise (no git executable, no working directory), print nothing (a
\* clean tree; outside a repository, where the error goes to stderr), or
\* print the changes. With nothing printed the call returns success.
ShellCheck ==
    /\ rpc = "shell_check"
    /\ \E report \in {"clean", "dirty", "norepo", "raises"} :
         /\ tree' = report
         /\ CASE report = "raises" ->
                   /\ rpc' = "shell_raised"
                   /\ UNCHANGED run_result
              [] report = "dirty" ->
                   /\ rpc' = "shell_next"
                   /\ UNCHANGED run_result
              [] OTHER ->
                   /\ rpc' = "shell_returned"
                   /\ run_result' = RunResult(TRUE, 0, <<"No changes to commit">>, None,
                                              <<"clean">>, NoError)
    /\ UNCHANGED <<executorVars, sideVars, session_id, cmd, stop_patterns, commands,
                   skip_if_clean, all_output, stop_reason, cmd_index, child,
                   stream, started, exit_codes>>

\* run_shell, lines 173-185 and 207-221: the next command of the list is
\* started (Popen may raise), or the list is exhausted and the call
\* returns success
ShellNext ==
    /\ rpc = "shell_next"
    /\ IF cmd_index > Len(commands)
       THEN /\ run_result' = RunResult(TRUE, 0, all_output, None, NoStopReason, NoError)
            /\ rpc' = "shell_returned"
            /\ UNCHANGED <<child, started>>
       ELSE \/ /\ started' = Append(started, commands[cmd_index])
               /\ child' = "running"
               /\ rpc' = "shell_reading"
               /\ UNCHANGED run_result
            \/ /\ run_result' = RunResult(FALSE, -1, all_output, None, NoStopReason,
                                          ExceptionText)
               /\ rpc' = "shell_returned"
               /\ UNCHANGED <<child, started>>
    /\ UNCHANGED <<executorVars, sideVars, session_id, cmd, stop_patterns, commands,
                   skip_if_clean, all_output, stop_reason, cmd_index, stream,
                   exit_codes, tree>>

\* run_shell, lines 187-193: one line of the command is read
ShellLine ==
    /\ rpc = "shell_reading"
    /\ Len(stream) < MaxLines
    /\ \E line \in ShellLines :
         /\ stream' = Append(stream, line)
         /\ all_output' = Collect(all_output, line)
    /\ UNCHANGED <<executorVars, sideVars, session_id, cmd, rpc, stop_patterns, commands,
                   skip_if_clean, stop_reason, cmd_index, child, run_result,
                   started, exit_codes, tree>>

\* Mutant of ShellCmdExit: a failed command does not end the call
ShellCmdExitGoesOn ==
    /\ rpc = "shell_reading"
    /\ \E exit_code \in ExitCodes : exit_codes' = Append(exit_codes, exit_code)
    /\ child' = "exited"
    /\ cmd_index' = cmd_index + 1
    /\ rpc' = "shell_next"
    /\ UNCHANGED <<executorVars, sideVars, session_id, cmd, stop_patterns, commands,
                   skip_if_clean, all_output, stop_reason, run_result, stream,
                   started, tree>>

\* run_shell, lines 195-205: process.wait(); a nonzero exit code ends the
\* call with the failure of this command
ShellCmdExit ==
    /\ rpc = "shell_reading"
    /\ \E exit_code \in ExitCodes :
         /\ exit_codes' = Append(exit_codes, exit_code)
         /\ IF exit_code # 0
            THEN /\ run_result' = RunResult(FALSE, exit_code, all_output, None,
                                            NoStopReason,
                                            CommandFailed(commands[cmd_index]))
                 /\ rpc' = "shell_returned"
                 /\ UNCHANGED cmd_index
            ELSE /\ cmd_index' = cmd_index + 1
                 /\ rpc' = "shell_next"
                 /\ UNCHANGED run_result
    /\ child' = "exited"
    /\ UNCHANGED <<executorVars, sideVars, session_id, cmd, stop_patterns, commands,
                   skip_if_clean, all_output, stop_reason, stream, started, tree>>

\* The call is over: its result (or the exception of line 157) went to the
\* caller and its locals are gone; the runner keeps its session token
Return ==
    /\ rpc \in {"run_returned", "shell_returned", "shell_raised"}
    /\ rpc' = "idle"
    /\ cmd' = NoArg
    /\ stop_patterns' = <<>>
    /\ commands' = <<>>
    /\ skip_if_clean' = FALSE
    /\ all_output' = <<>>
    /\ stop_reason' = NoStopReason
    /\ cmd_index' = 1
    /\ child' = "none"
    /\ run_result' = NoRunResult
    /\ stream' = <<>>
    /\ started' = <<>>
    /\ exit_codes' = <<>>
    /\ tree' = "unchecked"
    /\ UNCHANGED <<executorVars, sideVars, session_id>>

-----------------------------------------------------------------------------
(* workflow.py: _execute_claude_step and _execute_shell_step, called for   *)
(* step after step on the executor's runner                                *)

\* What the step executor, the orchestrator and the keyboard controller,
\* each on its own, leave alone
engineVars == <<executorVars, session_id, cmd, callVars>>

\* _execute_claude_step (lines 350-373) with the _build_command of
\* runner.run (runner.py:227-244): a step without a prompt fails before
\* anything is launched; otherwise the step's allow-list, when it has one,
\* is stored in the runner, and the command is built from the runner's
ExecuteClaudeStep ==
    /\ \E s \in ClaudeSteps :
         /\ exec_step' = s
         /\ IF s.prompt = None
            THEN /\ cmd_tools' = NotLaunched
                 /\ UNCHANGED allowed_tools
            ELSE /\ allowed_tools' = StepTools(s.allowed_tools, allowed_tools)
                 /\ cmd_tools' = BuildCommandTools(allowed_tools')
    /\ commit_message' = <<>>
    /\ shell_commands' = <<>>
    /\ UNCHANGED <<engineVars, auto_push, variables, orchVars, threadVars>>

\* _execute_shell_step (lines 375-403): a step without commands fails
\* before run_shell is called; otherwise the commands are substituted, the
\* commit message is put in, the publish commands are dropped when the run
\* does not publish, and the list is passed to run_shell
ExecuteShellStep ==
    /\ \E s \in ShellSteps, message \in CommitMessages :
         /\ exec_step' = s
         /\ IF s.commands = <<>>
            THEN /\ commit_message' = <<>>
                 /\ shell_commands' = <<>>
            ELSE /\ commit_message' = message
                 /\ shell_commands' =
                      PublishFilter(Substituted(s.commands, variables, message), auto_push)
    /\ cmd_tools' = NotLaunched
    /\ UNCHANGED <<engineVars, auto_push, variables, allowed_tools, orchVars, threadVars>>

-----------------------------------------------------------------------------
(* orchestrator.py: Orchestrator.run and Orchestrator.stop. run is a       *)
(* coroutine: each action is the code between two of its awaits, and stop  *)
(* (called from the event loop, tui.py:305-325) runs between two actions.  *)

\* lines 191-192: the code after the loop
Leave(path, p) ==
    /\ state' = [state EXCEPT !.is_running = FALSE]
    /\ run_ret' = (ProgressPercentage(p) >= 100)
    /\ exit_path' = path
    /\ opc' = "returned"
    /\ UNCHANGED <<iteration, impl_cmd>>

\* lines 146, 155 and 164: return False from inside the loop
ReturnFalse(path) ==
    /\ run_ret' = FALSE
    /\ exit_path' = path
    /\ opc' = "returned"
    /\ UNCHANGED <<state, plan, iteration, impl_cmd>>

\* lines 137-142 with 201-226: the loop's test; a new iteration builds the
\* implement command, with the session id `sid`, and launches it
WhileIteration(p, sid) ==
    IF ~should_stop /\ iteration < max_iterations
    THEN /\ iteration' = iteration + 1
         /\ impl_cmd' = OrchBuildCommand(sid)
         /\ opc' = "implement"
         /\ UNCHANGED <<state, run_ret, exit_path>>
    ELSE Leave(IF should_stop THEN "stopped" ELSE "limit", p)

\* lines 179-189: the session is cleared and the plan parsed again; a plan
\* at 100% ends the loop
EndOfIteration(sid) ==
    /\ orch_session_id' = OrchClearSession(sid)
    /\ \E p \in Plans :
         /\ plan' = p
         /\ IF ProgressPercentage(p) >= 100
            THEN Leave("plan_full", p)
            ELSE WhileIteration(p, orch_session_id')

\* lines 168-177: the summary is updated; with auto_commit the commit is
\* awaited, without it the iteration ends
AfterVerification(sid) ==
    IF auto_commit
    THEN /\ opc' = "commit"
         /\ orch_session_id' = sid
         /\ UNCHANGED <<state, plan, iteration, impl_cmd, run_ret, exit_path>>
    ELSE EndOfIteration(sid)

\* lines 124-142: run parses the plan, makes the state and enters the loop
RunStart ==
    /\ opc = "constructed"
    /\ \E p \in Plans :
         /\ plan' = p
         /\ IF ~should_stop /\ iteration < max_iterations
            THEN /\ state' = OrchestratorState(TRUE)
                 /\ iteration' = iteration + 1
                 /\ impl_cmd' = OrchBuildCommand(orch_session_id)
                 /\ opc' = "implement"
                 /\ UNCHANGED <<run_ret, exit_path>>
            ELSE /\ state' = OrchestratorState(FALSE)
                 /\ run_ret' = (ProgressPercentage(p) >= 100)
                 /\ exit_path' = IF should_stop THEN "stopped" ELSE "limit"
                 /\ opc' = "returned"
                 /\ UNCHANGED <<iteration, impl_cmd>>
    /\ UNCHANGED <<engineVars, stepVars, threadVars, auto_commit, should_stop,
                   orch_session_id, impl_result, stop_given, captured>>

\* lines 228-277 and 142-166: the implement invocation ends. A failed one
\* gives the status error; otherwise the session id of its result, when it
\* has one, is stored, and the status is read off its text. run returns on
\* error and low_confidence, leaves the loop on complete, awaits the
\* verification on verification_needed and goes on otherwise.
ImplementReturns ==
    /\ opc = "implement"
    /\ \E status \in Statuses, sid \in Tokens \cup {None} :
         LET stored == IF status # "error" /\ Truthy(sid) THEN sid ELSE orch_session_id IN
         /\ impl_result' = status
         /\ captured' = IF status # "error" THEN sid ELSE None
         /\ CASE status = "error" ->
                   /\ ReturnFalse("error")
                   /\ orch_session_id' = stored
              [] status = "complete" ->
                   /\ Leave("complete", plan)
                   /\ orch_session_id' = stored
                   /\ UNCHANGED plan
              [] status = "low_confidence" ->
                   /\ ReturnFalse("low_confidence")
                   /\ orch_session_id' = stored
              [] status = "verification_needed" ->
                   /\ opc' = "verify"
                   /\ orch_session_id' = stored
                   /\ UNCHANGED <<state, plan, iteration, impl_cmd, run_ret, exit_path>>
              [] OTHER -> AfterVerification(stored)
    /\ UNCHANGED <<engineVars, stepVars, threadVars, auto_commit, should_stop,
                   stop_given>>

\* lines 160-166: the verification ends; a failed one makes run return
VerificationReturns ==
    /\ opc = "verify"
    /\ \E verification_passed \in BOOLEAN :
         IF ~verification_passed
         THEN /\ ReturnFalse("verification_failed")
              /\ UNCHANGED orch_session_id
         ELSE AfterVerification(orch_session_id)
    /\ UNCHANGED <<engineVars, stepVars, threadVars, auto_commit, should_stop,
                   impl_result, stop_given, captured>>

\* lines 175-177: the commit ends; its failure is only logged
CommitReturns ==
    /\ opc = "commit"
    /\ EndOfIteration(orch_session_id)
    /\ UNCHANGED <<engineVars, stepVars, threadVars, auto_commit, should_stop,
                   impl_result, stop_given, captured>>

\* lines 124, 170 and 184: PlanParser.parse and update_summary read the plan
\* file, and an exception of theirs leaves run
RunRaises ==
    /\ opc \in {"constructed", "verify", "commit"}
    /\ opc' = "raised"
    /\ orch_session_id' = IF opc = "commit" THEN OrchClearSession(orch_session_id)
                          ELSE orch_session_id
    /\ UNCHANGED <<engineVars, stepVars, threadVars, auto_commit, iteration,
                   should_stop, state, plan, impl_result, impl_cmd, run_ret,
                   exit_path, stop_given, captured>>

\* Orchestrator.stop (lines 575-580)
Stop ==
    /\ \E reason \in StopReasons :
         /\ should_stop' = TRUE
         /\ stop_given' = reason
         /\ state' = IF state.none THEN state
                     ELSE [state EXCEPT !.should_stop = TRUE, !.stop_reason = reason]
    /\ UNCHANGED <<engineVars, stepVars, threadVars, opc, auto_commit, iteration,
                   orch_session_id, plan, impl_result, impl_cmd, run_ret,
                   exit_path, captured>>

-----------------------------------------------------------------------------
(* ui/keyboard.py: KeyboardController with the threads start() creates.    *)
(* start() and stop() are called by the loop thread (workflow.py:82, 169,  *)
(* 195, 214); every listener thread runs _listen_loop with the handler     *)
(* workflow.py:172-189 as its callback.                                    *)

\* What the controller and its callback leave alone
kbRest == <<workflow, loopLocals, pc, displayVars, listenerVars, runnerVars,
            historyVars, callVars, stepVars, orchVars>>

\* start, lines 48-52, called as the program calls it: first, or after stop
KbStart ==
    /\ kmain = "idle"
    /\ kb_thread = NoHandle
    /\ \E t \in Thread :
         /\ threads[t].at = "unborn"
         /\ \A u \in Thread : u < t => threads[u].at # "unborn"
         /\ kb_running' = TRUE
         /\ threads' = [threads EXCEPT ![t].at = "test"]
         /\ kb_thread' = t
    /\ UNCHANGED <<kbRest, pending_action, consoleVars, interrupted, kmain, joined>>

\* stop, lines 56-57: the flag is lowered, and the thread is waited for
KbStop ==
    /\ kmain = "idle"
    /\ kb_thread # NoHandle
    /\ kb_running' = FALSE
    /\ kmain' = "join"
    /\ UNCHANGED <<kbRest, pending_action, consoleVars, interrupted, threads,
                   kb_thread, joined>>

\* line 58: join(timeout=0.5) returns when the thread has ended, or when
\* the timeout has passed; inkey returns within 0.1 s (line 66), the
\* callback has no bound on the time it takes
JoinReturns(at) == at \in {"done", "callback", "handler"}

\* stop, lines 58-59: the join returns and the handle is dropped
KbJoin ==
    /\ kmain = "join"
    /\ JoinReturns(threads[kb_thread].at)
    /\ joined' = joined \cup {kb_thread}
    /\ kb_thread' = NoHandle
    /\ kmain' = "idle"
    /\ UNCHANGED <<kbRest, pending_action, consoleVars, interrupted, kb_running, threads>>

\* line 64: while self._running
ListenTest(t) ==
    /\ threads[t].at = "test"
    /\ threads' = [threads EXCEPT ![t].at = IF kb_running THEN "inkey" ELSE "done"]
    /\ UNCHANGED <<kbRest, pending_action, consoleVars, interrupted, kb_running,
                   kb_thread, kmain, joined>>

\* lines 66-79: inkey returns with no key, with a key that is dropped, or
\* with a control key, whose action the callback is about to be given
ListenInkey(t) ==
    /\ threads[t].at = "inkey"
    /\ \E key \in Keys \cup {""} :
         LET action == IF key = "" THEN None ELSE KeyToAction(KeyChar(key)) IN
           threads' = [threads EXCEPT ![t] =
                         IF action = None
                         THEN [at |-> "test", action |-> None]
                         ELSE [at |-> "callback", action |-> action]]
    /\ UNCHANGED <<kbRest, pending_action, consoleVars, interrupted, kb_running,
                   kb_thread, kmain, joined>>

\* workflow.py:179: the callback publishes the intent
ListenPublish(t) ==
    /\ threads[t].at = "callback"
    /\ pending_action' = threads[t].action
    /\ threads' = [threads EXCEPT ![t].at = "handler"]
    /\ UNCHANGED <<kbRest, consoleVars, interrupted, kb_running, kb_thread, kmain,
                   joined>>

\* workflow.py:181-189: the rest of the callback, and back to line 64
ListenHandler(t) ==
    /\ threads[t].at = "handler"
    /\ LET action == threads[t].action IN
         /\ interrupted' = IF action = CONTINUE THEN interrupted ELSE Interrupt
         /\ paused' = (action # CONTINUE)
         /\ manual_mode' = IF action = MANUAL THEN TRUE ELSE manual_mode
    /\ threads' = [threads EXCEPT ![t] = [at |-> "test", action |-> None]]
    /\ UNCHANGED <<kbRest, pending_action, kb_running, kb_thread, kmain, joined>>

-----------------------------------------------------------------------------
(* Properties *)

\* The execution loop takes the step at line 116: _execute_step is called
DispatchStep == pc = "dispatch" /\ pc' # "dispatch"

\* The execution loop takes the step at line 122
CheckStep == pc = "check_interrupted" /\ pc' # "check_interrupted"

\* The execution loop takes the step at lines 142-152
EvaluateStep == pc = "evaluate" /\ pc' # "evaluate"

\* An agent invocation (a claude step or a manual prompt) is launched
Launch == proc = "none" /\ proc' \in {"claude", "manual"}

Halted == pc \in {"finally", "done"}

\* Steps are dispatched in list order: the first dispatch of a phase is step
\* 0, and each dispatch is the step after the last one, or the last one
\* again after an interruption.
InListOrder ==
    DispatchStep =>
        /\ step_index \in {last_dispatched, last_dispatched + 1}
        /\ step_index = last_dispatched => retry # NoRetry

\* C1: when is_interrupted() is true at the check after a dispatch,
\* step_index and phase are unchanged and the next step dispatched is the
\* same one; step_index grows by exactly one, and only after a dispatch whose
\* check read is_interrupted() false.
C1_InterruptedStepRetried ==
    /\ [][(CheckStep /\ IsInterrupted) =>
            (step_index' = step_index /\ phase' = phase /\ pc' = "while_step")]_vars
    /\ [](retry # NoRetry => (retry = <<phase, step_index>> /\ ~Halted))
    /\ [][step_index' > step_index =>
            (step_index' = step_index + 1 /\ EvaluateStep /\ ~int_seen)]_vars

C1_Witness ==
    /\ pc = "dispatch"
    /\ retry = <<phase, step_index>>
    /\ step_index > 0
    /\ ~CurrentStep.require_success

\* C2: when the loop dispatches a scheduled step, neither paused nor
\* manual_mode is true.
C2_NoDispatchWhilePaused ==
    [][DispatchStep => (~paused /\ ~manual_mode)]_vars

\* C3: after a pause key pressed while a step invocation is in flight, the
\* step's check reads is_interrupted() true, no scheduled step is dispatched
\* until the resume key is pressed, and the step dispatched after the resume
\* is the interrupted one.
C3_PauseHoldsUntilResume ==
    /\ [][(CheckStep /\ pause_hold # None) => IsInterrupted]_vars
    /\ [][DispatchStep => pause_hold # "held"]_vars
    /\ [][(DispatchStep /\ pause_hold = "resumed") => retry = <<phase, step_index>>]_vars

\* C4: a failed, uninterrupted step that does not require success advances
\* step_index and leaves the run going; steps are dispatched in list order
\* with none skipped, and a phase ends with step_index = N.
C4_NonRequiredFailureContinues ==
    /\ [][(EvaluateStep /\ ~result.success /\ ~CurrentStep.require_success) =>
            (step_index' = step_index + 1 /\ pc' = "while_step" /\ outcome' = "none")]_vars
    /\ [][InListOrder]_vars
    /\ [](pc = "plan_check" => (step_index = N /\ last_dispatched = N - 1))

C4_Witness ==
    /\ pc = "evaluate"
    /\ ~result.success
    /\ ~CurrentStep.require_success
    /\ step_index + 1 < N

\* C5: a failed, uninterrupted step that requires success ends execute with
\* False at once: no further dispatch, no new phase, no query of the
\* completion detector.
C5_RequiredFailureHalts ==
    /\ [][(EvaluateStep /\ ~result.success /\ CurrentStep.require_success) =>
            (outcome' = "step_failed" /\ pc' = "finally"
             /\ step_index' = step_index /\ phase' = phase)]_vars
    /\ [](outcome = "step_failed" => (Halted /\ proc = "none" /\ ~plan_complete))
    /\ [][outcome = "step_failed" =>
            (outcome' = outcome /\ phase' = phase /\ step_index' = step_index
             /\ last_dispatched' = last_dispatched /\ proc' = proc
             /\ plan_complete' = plan_complete)]_vars

C5_Witness ==
    /\ outcome = "step_failed"
    /\ pc = "done"
    /\ step_index + 1 < N

\* C6: execute returns True exactly when the completion detector returned
\* true, which ends the run at once; the detector is queried, and success
\* reported, only with step_index = N after a last step that was not
\* interrupted.
C6_SuccessOnlyAtPhaseBoundary ==
    /\ [](pc = "plan_check" => (step_index = N /\ (N > 0 => ~int_seen)))
    /\ [](plan_complete <=> outcome = "success")
    /\ [](outcome = "success" => (Halted /\ step_index = N))
    /\ [][plan_complete' # plan_complete => (pc = "plan_check" /\ step_index = N)]_vars

C6_Witness ==
    /\ outcome = "success"
    /\ pc = "done"
    /\ phase = 2
    /\ N > 1

\* C7: no phase above max_phases is started, and a run that reaches the
\* ceiling without completion ends with False and the reason "max phases",
\* not the reason of a failed step.
C7_PhaseCeiling ==
    /\ [](phase <= max_phases)
    /\ [][(pc = "while_phase" /\ pc' # pc /\ phase = max_phases) =>
            (outcome' = "max_phases" /\ pc' = "finally")]_vars
    /\ [](outcome = "max_phases" =>
            (phase = max_phases /\ ~plan_complete /\ Halted /\ step_index = N))
    /\ [][phase' # phase => (phase' = phase + 1 /\ phase < max_phases)]_vars

C7_Witness ==
    /\ outcome = "max_phases"
    /\ pc = "done"
    /\ phase = max_phases

\* C8: an agent invocation launched after one that returned the token t,
\* with no clear_session() between them, carries --resume t; an agent
\* invocation launched after clear_session() carries no resume argument.
C8_TokenRoundTrip ==
    [][Launch =>
         /\ Truthy(returned) => cmd' = returned
         /\ cleared => cmd' = NoArg]_vars

C8_Witness ==
    /\ proc = "claude"
    /\ cmd \in Tokens
    /\ cmd = returned
    /\ phase = 2

\* C9: a non-empty session token becomes empty only through clear_session().
C9_TokenClearedOnlyByClearSession ==
    [][(Truthy(session_id) /\ ~Truthy(session_id')) =>
         (pc = "dispatch" /\ CurrentStep.type = "internal"
          /\ CurrentStep.action = "clear_session")]_vars

\* C10: for the workflow [agent prompt, child commands, clear_session] the
\* steps of a phase run in list order, the token the agent step returned is
\* held while the child commands run, the token is empty when the phase ends,
\* the next phase starts at step_index 0, and the first agent invocation
\* after the clear is launched without a resume argument.
C10_ScenarioClearsBetweenPhases ==
    /\ [](workflow = ScenarioWorkflow =>
            /\ (pc = "shell_running" /\ Truthy(returned)) => session_id = returned
            /\ (pc \in {"plan_check", "while_phase"} /\ phase >= 1) =>
                 (step_index = 3 /\ session_id = None /\ cleared))
    /\ [][workflow = ScenarioWorkflow =>
            /\ InListOrder
            /\ phase' # phase => (phase' = phase + 1 /\ step_index' = 0)
            /\ (Launch /\ phase > 1 /\ cleared) =>
                 (cmd' = NoArg /\ session_id = None)]_vars

C10_Witness ==
    /\ workflow = ScenarioWorkflow
    /\ phase = 2
    /\ step_index = 0
    /\ pc = "claude_running"
    /\ cmd = NoArg
    /\ last_dispatched = 0

-----------------------------------------------------------------------------
(* Properties of run and run_shell *)

IsText(line) == line.text # <<>>

\* The non-empty lines among those written
NonEmpty(lines) == SelectSeq(lines, IsText)

\* The lines written so far that match a stop pattern
MatchingLines ==
    { i \in 1..Len(stream) : Matching(stop_patterns, stream[i]) # {} }

\* The stop reason of the earliest matching line and, within it, of the
\* first matching pattern in list order
FirstMatch ==
    IF MatchingLines = {}
    THEN NoStopReason
    ELSE PatternMatched(stop_patterns[
             SetMin(Matching(stop_patterns, stream[SetMin(MatchingLines)]))])

\* run has returned after process.wait()
RunExited == rpc = "run_returned" /\ child = "exited"

IsPrefix(s, t) == Len(s) <= Len(t) /\ s = SubSeq(t, 1, Len(s))

\* The commands waited for that exited nonzero
NonZero == { i \in 1..Len(exit_codes) : exit_codes[i] # 0 }

\* run_shell went past the skip_if_clean test to the command list
NotSkipped == tree \in {"unchecked", "dirty"}

\* C11: when a line of an invocation of run matched a stop pattern, run
\* returns only after the child exited, with stop_reason set and with every
\* non-empty line the child wrote, before and after the match, in output.
C11_StopPatternNeverEndsStream ==
    [](rpc = "run_returned" /\ MatchingLines # {} =>
          /\ child = "exited"
          /\ run_result.stop_reason # NoStopReason
          /\ run_result.output = NonEmpty(stream))

\* C12: the stop_reason run returns after the child exited is that of the
\* earliest matching line and of the first pattern of the list found in it.
C12_StopReasonIsFirstMatch ==
    [](RunExited => run_result.stop_reason = FirstMatch)

\* C13: when run returns after the child exited, success is true exactly
\* for exit code 0, and error is set for every other exit code.
C13_NonzeroExitPopulatesError ==
    [](RunExited =>
          /\ run_result.success <=> run_result.exit_code = 0
          /\ run_result.exit_code # 0 => run_result.error # NoError)

\* C14: run_shell starts its commands in list order, one after the other has
\* exited; the first nonzero exit code ends the call with success false, that
\* exit code, an error naming that command and the lines read so far, and no
\* later command is started; when every command exited 0 the result is
\* success with exit code 0.
C14_ShellStopsAtFirstFailure ==
    /\ [](/\ IsPrefix(started, commands)
          /\ Len(exit_codes) <= Len(started)
          /\ Len(started) <= Len(exit_codes) + 1)
    /\ [](NonZero # {} =>
          /\ NonZero = {Len(exit_codes)}
          /\ Len(started) = Len(exit_codes)
          /\ rpc = "shell_returned"
          /\ run_result = RunResult(FALSE, exit_codes[Len(exit_codes)],
                                    NonEmpty(stream), None, NoStopReason,
                                    CommandFailed(commands[Len(exit_codes)])))
    /\ []((rpc = "shell_returned" /\ NotSkipped /\ NonZero = {}
            /\ Len(exit_codes) = Len(commands)) =>
          run_result = RunResult(TRUE, 0, NonEmpty(stream), None, NoStopReason,
                                 NoError))

C14_Witness ==
    /\ rpc = "shell_returned"
    /\ commands = <<"echo ok", "exit 1", "echo never">>
    /\ exit_codes = <<0, 1>>
    /\ started = <<"echo ok", "exit 1">>
    /\ all_output # <<>>

\* C15: with skip_if_clean set and a clean tree, run_shell returns success
\* with exit code 0 and has started none of its commands; with a tree that
\* is not clean, or skip_if_clean not set, it goes through the command list.
C15_SkipIfCleanShortCircuits ==
    /\ [][(rpc = "shell_check" /\ tree' = "clean") =>
            /\ rpc' = "shell_returned"
            /\ run_result'.success /\ run_result'.exit_code = 0
            /\ started' = <<>>]_vars
    /\ [](tree = "clean" => (rpc = "shell_returned" /\ started = <<>>))
    /\ [](tree # "unchecked" => skip_if_clean)
    /\ [][(rpc = "shell_check" /\ tree' = "dirty") => rpc' = "shell_next"]_vars
    /\ []((rpc = "shell_returned" /\ NotSkipped) =>
          /\ run_result.success => started = commands
          /\ (commands # <<>> /\ run_result.error # ExceptionText) => started # <<>>)

C15_Witness ==
    /\ rpc = "shell_returned"
    /\ skip_if_clean
    /\ tree = "clean"
    /\ Len(commands) = 2
    /\ run_result.success

\* C16: every line read by run leaves it reading, whatever its kind, and
\* run returns only after the child exited, with success decided by the
\* exit code.
C16_NoLineAbortsInvocation ==
    /\ [][(rpc = "run_reading" /\ stream' # stream) => rpc' = "run_reading"]_vars
    /\ []((rpc = "run_returned" /\ stream # <<>>) =>
          /\ child = "exited"
          /\ run_result.success <=> run_result.exit_code = 0)

-----------------------------------------------------------------------------
(* Properties of the executor: listener, invocations, manual prompt *)

\* C17: no step is dispatched before the listener was started or while it
\* is stopped, and execute ends, however it ends, through the finally
\* clause and with the listener stopped.
C17_ListenerStartedAndStopped ==
    /\ [](pc = "start" => (~kb_running /\ phase = 0 /\ last_dispatched = -1))
    /\ [][DispatchStep => kb_running]_vars
    /\ [](outcome # "none" => Halted)
    /\ [](pc = "done" => ~kb_running)
    /\ [][pc' = "done" => (pc \in {"finally", "done"} /\ ~kb_running')]_vars

C17_Witness ==
    /\ pc = "done"
    /\ outcome = "raised_manual"
    /\ ~kb_running
    /\ last_dispatched = 0

InManualMode == pc \in ManualPcs \cup {"manual_done"}

\* C19: no step taken while the loop is in manual mode changes step_index,
\* phase, the displayed step counter or the progress bar, whether the manual
\* invocation completes or is interrupted; the manual invocation is launched
\* with --resume and the current token, or without when there is none; an
\* empty answer launches nothing.
C19_ManualPromptNotCounted ==
    /\ [][InManualMode =>
            /\ step_index' = step_index /\ phase' = phase
            /\ current_step_num' = current_step_num /\ progress' = progress]_vars
    /\ [][(proc # "manual" /\ proc' = "manual") =>
            /\ pc = "manual_prompt"
            /\ cmd' = IF Truthy(session_id) THEN session_id ELSE NoArg]_vars
    /\ [][(pc = "manual_prompt" /\ pc' = "manual_done") =>
            (proc' = "none" /\ cmd' = NoArg)]_vars

C19_Witness ==
    /\ workflow = << Step("shell", None, TRUE) >>
    /\ pc = "manual_done"
    /\ returned \in Tokens
    /\ interrupted
    /\ current_step_num = 1
    /\ progress = 1

\* C20: a dispatch whose check reads is_interrupted() true does not end the
\* run, whatever its result and require_success; the run ends with a failed
\* step only at the evaluation of a dispatch that was not interrupted.
C20_InterruptionIsNotFailure ==
    /\ [][(CheckStep /\ IsInterrupted) =>
            (outcome' = "none" /\ pc' \notin {"finally", "done"})]_vars
    /\ [][(outcome # "step_failed" /\ outcome' = "step_failed") =>
            (EvaluateStep /\ ~int_seen /\ ~result.success)]_vars

C20_Witness ==
    /\ pc = "check_interrupted"
    /\ IsInterrupted
    /\ ~result.success
    /\ CurrentStep.require_success
    /\ CurrentStep.type = "claude"

-----------------------------------------------------------------------------
(* Properties of the dispatch, the intent slot and the counters *)

\* A step of no known type, or an internal step of no known action
Unrecognised(step) ==
    \/ step.type \notin StepType
    \/ step.type = "internal" /\ step.action \notin {"clear_session", "show_changes"}

\* C21: the dispatch of a step of no known type, or of an internal step of
\* no known action, gives a result with success false and an error that
\* names the type or the action, whatever require_success is; it clears no
\* session and launches no invocation.
C21_UnknownStepFails ==
    [][(DispatchStep /\ Unrecognised(CurrentStep)) =>
          /\ pc' = "check_interrupted"
          /\ ~result'.success
          /\ result'.error = IF CurrentStep.type = "internal"
                             THEN UnknownAction(CurrentStep.action)
                             ELSE UnknownStepType(CurrentStep.type)
          /\ session_id' = session_id /\ returned' = returned
          /\ cleared' = cleared
          /\ proc' = "none" /\ cmd' = cmd]_vars

C21_Witness ==
    /\ pc = "check_interrupted"
    /\ CurrentStep = Step("internal", None, TRUE)
    /\ result.error = UnknownAction(None)
    /\ last_dispatched = 1
    /\ session_id \in Tokens

\* C22: no call of run or run_shell ends with an exception: when the child
\* cannot be started, or the cleanliness check fails, the call returns a
\* result with success false and an error.
C22_NoExceptionEscapesDispatch ==
    /\ [](rpc # "shell_raised")
    /\ [](tree = "raises" =>
            (rpc = "shell_returned" /\ ~run_result.success
             /\ run_result.error # NoError))
    /\ []((rpc \in {"run_returned", "shell_returned"} /\ run_result.exit_code = -1) =>
            (~run_result.success /\ run_result.error # NoError))

\* C30: run returns only when the child it launched, if any, has been
\* waited for.
C30_ChildWaitedBeforeReturn ==
    [][rpc' = "run_returned" => child' \in {"none", "exited"}]_vars

\* C28: the pause key stores PAUSE and its handler calls interrupt(); the
\* manual key stores MANUAL and its handler calls interrupt(); the resume
\* key stores CONTINUE and its handler does not call interrupt(); a key in
\* upper case does what it does in lower case; any other key changes
\* nothing.
C28_KeyToIntent ==
    /\ []((kb_running /\ lpc = "idle") =>
            /\ \A key \in {"p", "P"} :
                 ENABLED (OnKey(key) /\ pending_action' = PAUSE /\ lact' = PAUSE
                          /\ lpc' = "interrupt")
            /\ \A key \in {"m", "M"} :
                 ENABLED (OnKey(key) /\ pending_action' = MANUAL /\ lact' = MANUAL
                          /\ lpc' = "interrupt")
            /\ \A key \in {"c", "C"} :
                 ENABLED (OnKey(key) /\ pending_action' = CONTINUE
                          /\ lact' = CONTINUE /\ lpc' = "set_paused")
            /\ \A key \in Keys \ {"p", "P", "m", "M", "c", "C"} :
                 ENABLED (OnKey(key) /\ UNCHANGED vars))
    /\ [][(pending_action' # pending_action /\ pending_action' # None) =>
            (lpc = "idle" /\ lact' = pending_action')]_vars
    /\ [](lpc = "interrupt" => lact \in {PAUSE, MANUAL})
    /\ [][(lpc = "interrupt" /\ lpc' # lpc) => interrupted']_vars
    /\ [][(lact = CONTINUE /\ lpc' # lpc) => interrupted' = interrupted]_vars

C28_Witness ==
    /\ lpc = "set_paused"
    /\ lact = MANUAL
    /\ pending_action = MANUAL
    /\ interrupted
    /\ pc = "shell_running"

\* C24: while a MANUAL intent stands (stored, and since then no key handled
\* and manual mode not entered), no scheduled step is dispatched and the
\* slot goes on holding MANUAL, wherever the loop was when the key was
\* pressed.
C24_ManualOverrideBeforeNextStep ==
    /\ [][DispatchStep => ~manual_req]_vars
    /\ [](manual_req => pending_action = MANUAL)

\* The positions of the wait at lines 104-108
WaitPcs == {"wait_paused", "wait_pending", "wait_continue", "wait_clear"}

\* The loop has read the intent in the slot and acted on it: it leaves the
\* wait for MANUAL (line 104) or for CONTINUE (lines 105-107), goes on
\* holding for PAUSE (line 108), or comes back from manual mode (line 101)
LoopActed ==
    \/ pc = "wait_pending" /\ pc' = "clear_interrupted"
    \/ pc = "wait_clear" /\ pc' = "clear_interrupted"
    \/ pc = "wait_continue" /\ pc' = "wait_paused" /\ pending_action = PAUSE
    \/ pc = "manual_done" /\ pc' # pc

\* C26: the slot holds one intent or none, a key's intent replaces the one
\* in the slot, and the slot is empty after every step in which the loop
\* has acted on the intent it read.
C26_IntentSlotReadAndCleared ==
    /\ [](pending_action \in KeyAction \cup {None})
    /\ [][(lpc = "idle" /\ lpc' # "idle") => pending_action' = lact']_vars
    /\ [][LoopActed => pending_action' = None]_vars

\* C27: a step of the listener thread changes none of paused, manual_mode,
\* step_index, phase and the session token; paused and manual_mode change
\* only in steps of the execution loop.
C27_ListenerOnlyRequests ==
    /\ [][lpc' # lpc =>
            UNCHANGED <<paused, manual_mode, step_index, phase, session_id>>]_vars
    /\ [][(paused' # paused \/ manual_mode' # manual_mode) =>
            (pc' # pc /\ lpc' = lpc)]_vars

\* C29: the first phase is phase 1 and phase grows by one at a time;
\* step_index is 0 when a phase starts and stays within 0..N; the steps of
\* a phase are dispatched in list order; a phase after the first starts
\* only with step_index = N and after the plan check returned false.
C29_CountersProgressRegularly ==
    /\ [](phase \in 0..max_phases /\ step_index \in 0..N)
    /\ [](phase = 0 <=> pc \in {"start", "while_phase"} /\ last_dispatched = -1
                        /\ step_index = 0 /\ outcome = "none")
    /\ [][phase' # phase =>
            /\ phase' = phase + 1
            /\ step_index' = 0
            /\ pc = "while_phase"
            /\ phase > 0 => (step_index = N /\ ~plan_complete)]_vars
    /\ [][(pc = "plan_check" /\ pc' = "while_phase") =>
            (step_index = N /\ ~plan_complete')]_vars
    /\ [][pc' = "while_phase" => pc \in {"start", "plan_check", "while_phase"}]_vars
    /\ [][InListOrder]_vars
    /\ [][DispatchStep => step_index < N]_vars

C29_Witness ==
    /\ phase = 2
    /\ pc = "dispatch"
    /\ step_index = 1
    /\ last_dispatched = 1
    /\ N = 2

\* The step at the loop's position has been dispatched
Dispatched ==
    /\ pc \in {"claude_running", "shell_running", "check_interrupted"}
    /\ last_dispatched = step_index

InterruptKey == lpc = "idle" /\ lpc' = "interrupt"

\* C23: when pause and manual keys are pressed only finitely often and
\* every pause is followed by a resume, execute ends, and it ends by
\* returning True or False, once.
C23_ExecuteHaltsWithOneOutcome ==
    /\ (<>[][~InterruptKey]_vars /\ (paused ~> ~paused)) => <>(pc = "done")
    /\ [](pc = "done" => outcome \in {"success", "step_failed", "max_phases"})
    /\ [][outcome # "none" => outcome' = outcome]_vars

-----------------------------------------------------------------------------
(* Properties of the step executor *)

\* The commands of the last shell step after both substitutions
LastSubstituted == Substituted(exec_step.commands, variables, commit_message)

\* The positions of LastSubstituted that hold no publish command
Kept == { i \in DOMAIN LastSubstituted : ~Contains(LastSubstituted[i], GitPush) }

\* C31: when the run does not publish (auto_push false), no command that
\* contains "git push" is passed to run_shell, and the other commands are
\* passed in the order they had; when auto_push is true the substituted
\* commands are passed as they are.
C31_PublishDroppedUnlessAutoPush ==
    [](exec_step.type = "shell" /\ exec_step.commands # <<>> =>
         IF auto_push
         THEN shell_commands = LastSubstituted
         ELSE /\ \A i \in DOMAIN shell_commands : ~Contains(shell_commands[i], GitPush)
              /\ Len(shell_commands) = Cardinality(Kept)
              /\ \A i \in Kept :
                   shell_commands[Cardinality({ k \in Kept : k <= i })] = LastSubstituted[i])

\* A shell step of three commands ran without auto_push; the second became
\* a publish command by substitution and was dropped, the others were passed
C31_Witness ==
    /\ ~auto_push
    /\ exec_step.type = "shell"
    /\ Len(exec_step.commands) = 3
    /\ ~Contains(exec_step.commands[2], GitPush)
    /\ Kept = {1, 3}
    /\ Len(shell_commands) = 2

\* C36: every agent step is launched with its own allow-list: a step that
\* specifies no allowed_tools is launched without --allowedTools, whatever
\* an earlier step of the run specified.
C36_StepLaunchedWithOwnAllowList ==
    [](exec_step.type = "claude" /\ exec_step.prompt # None =>
         cmd_tools = BuildCommandTools(exec_step.allowed_tools))

-----------------------------------------------------------------------------
(* Properties of the orchestrator *)

\* run has returned
RunReturned == opc = "returned"

\* C32: run returns True when the loop ended with the plan completed (the
\* implement step reported complete, or the plan parsed again was at 100%),
\* and False on every other exit.
C32_RunReturnsCompletion ==
    [](RunReturned => (run_ret <=> exit_path \in {"complete", "plan_full"}))

\* C33: once stop() was called no new iteration starts, and the state says
\* should_stop with the reason that was given.
C33_StopEndsTheLoop ==
    /\ [][should_stop => iteration' = iteration]_vars
    /\ [](stop_given # None /\ ~state.none =>
            state.should_stop /\ state.stop_reason = stop_given)

\* C37: the session id an implement invocation returned is cleared before
\* the next iteration, so that every implement invocation is launched
\* without a resume token.
C37_SessionClearedEachIteration ==
    /\ [][iteration' # iteration => orch_session_id' = None]_vars
    /\ [](opc = "implement" => impl_cmd = NoArg)

\* The second iteration's invocation is in flight, launched without a
\* token, after the first one's result carried a session id
C37_Witness ==
    /\ iteration = 2
    /\ opc = "implement"
    /\ captured \in Tokens
    /\ impl_cmd = NoArg

\* C38: whenever run has returned, state.is_running is false.
C38_NotRunningAfterReturn == [](RunReturned => ~state.is_running)

-----------------------------------------------------------------------------
(* Properties of the retry and of the display *)

\* C34: a shell step whose commands all ran to completion is not dispatched
\* again in the same phase, also when a pause or manual key was pressed
\* while it ran.
C34_CompletedShellStepNotRepeated == [][DispatchStep => ~rerun]_vars

\* C35: the displayed step counter agrees with the loop under every
\* interleaving of key presses: when the loop is back at its test after a
\* dispatch, the counter is the number of steps completed in the phase,
\* step_index, and it never exceeds the number of steps of the workflow.
C35_StepCounterAgreesWithLoop ==
    /\ [](pc = "while_step" => current_step_num = step_index)
    /\ [](current_step_num <= N)

-----------------------------------------------------------------------------
(* Properties of the keyboard controller *)

\* Thread t hands an intent to the loop
Publishes(t) == threads[t].at = "callback" /\ threads'[t].at = "handler"

\* The threads that read keys or run the callback
Listening == { t \in Thread : threads[t].at \in {"inkey", "callback", "handler"} }

\* C39: once stop() has returned, the listener it stopped publishes no
\* further intent, and after stop() and start() at most one listener thread
\* reads keys and invokes the callback.
C39_StoppedListenerIsSilent ==
    /\ [][\A t \in joined : ~Publishes(t)]_vars
    /\ [](Cardinality(Listening) <= 1)

-----------------------------------------------------------------------------
(* Specifications *)

\* The executor and the listener thread, the display left out
Next ==
    \/ NoDisplay(StartListener) \/ NoDisplay(WhilePhase(MaxPhases))
    \/ NoDisplay(WhileStep) \/ NoDisplay(CheckManual) \/ NoDisplay(WaitPaused)
    \/ NoDisplay(WaitPending) \/ NoDisplay(WaitContinue) \/ NoDisplay(WaitClear)
    \/ NoDisplay(ClearInterrupted) \/ NoDisplay(Dispatch) \/ NoDisplay(ShellExit)
    \/ NoDisplay(CheckInterrupted) \/ NoDisplay(Evaluate) \/ NoDisplay(PlanCheck)
    \/ NoDisplay(Finally)
    \/ NoDisplay(AgentLine) \/ NoDisplay(AgentExit)
    \/ NoDisplay(ManualStop) \/ NoDisplay(ManualAsk) \/ NoDisplay(ManualUnpause)
    \/ NoDisplay(ManualStart) \/ NoDisplay(ManualPrompt) \/ NoDisplay(ManualDone)
    \/ NoDisplay(KeyPress(Keys)) \/ NoDisplay(HandlerInterrupt)
    \/ NoDisplay(HandlerSetPaused) \/ NoDisplay(HandlerSetManual)

Spec == Init /\ [][Next]_vars

\* Runs to the phase ceiling: workflows without agent steps, an operator
\* who uses the pause and resume keys
CeilingWorkflows ==
    { << Step("shell", None, TRUE) >>,
      << Step("internal", "show_changes", FALSE), Step("shell", None, FALSE) >> }

InitCeiling == InitWith(CeilingWorkflows)

NextCeiling ==
    \/ NoDisplay(StartListener) \/ NoDisplay(WhilePhase(max_phases))
    \/ NoDisplay(WhileStep) \/ NoDisplay(CheckManual) \/ NoDisplay(WaitPaused)
    \/ NoDisplay(WaitPending) \/ NoDisplay(WaitContinue) \/ NoDisplay(WaitClear)
    \/ NoDisplay(ClearInterrupted) \/ NoDisplay(Dispatch) \/ NoDisplay(ShellExit)
    \/ NoDisplay(CheckInterrupted) \/ NoDisplay(Evaluate) \/ NoDisplay(PlanCheck)
    \/ NoDisplay(Finally)
    \/ NoDisplay(KeyPress(KeysOf({PAUSE, CONTINUE, None}))) \/ NoDisplay(HandlerInterrupt)
    \/ NoDisplay(HandlerSetPaused)

SpecCeiling == InitCeiling /\ [][NextCeiling]_vars

\* Runs that an exception may end, up to the phase ceiling: a workflow of
\* one shell step, agent invocations through the manual prompt
RaiseWorkflows == { << Step("shell", None, TRUE) >> }

InitRaise == InitWith(RaiseWorkflows)

NextRaise ==
    \/ NoDisplay(StartListener) \/ NoDisplay(WhilePhase(max_phases))
    \/ NoDisplay(WhileStep) \/ NoDisplay(CheckManual) \/ NoDisplay(WaitPaused)
    \/ NoDisplay(WaitPending) \/ NoDisplay(WaitContinue) \/ NoDisplay(WaitClear)
    \/ NoDisplay(ClearInterrupted) \/ NoDisplay(Dispatch) \/ NoDisplay(ShellExit)
    \/ NoDisplay(CheckInterrupted) \/ NoDisplay(Evaluate) \/ NoDisplay(PlanCheck)
    \/ NoDisplay(Finally)
    \/ NoDisplay(AgentLine) \/ NoDisplay(AgentExit)
    \/ NoDisplay(ManualStop) \/ NoDisplay(ManualAsk) \/ NoDisplay(ManualUnpause)
    \/ NoDisplay(ManualStart) \/ NoDisplay(ManualPrompt) \/ NoDisplay(ManualDone)
    \/ NoDisplay(KeyPress(Keys)) \/ NoDisplay(HandlerInterrupt)
    \/ NoDisplay(HandlerSetPaused) \/ NoDisplay(HandlerSetManual)
    \/ NoDisplay(Raise)

SpecRaise == InitRaise /\ [][NextRaise]_vars

\* The executor and the listener thread with the display
DisplayWorkflows ==
    { << Step("claude", None, FALSE), Step("internal", "show_changes", FALSE) >>,
      << Step("shell", None, TRUE) >> }

InitDisplay == InitWith(DisplayWorkflows)

NextDisplay ==
    \/ NoDisplay(StartListener) \/ WhilePhaseShown(MaxPhases)
    \/ NoDisplay(WhileStep) \/ NoDisplay(CheckManual) \/ NoDisplay(WaitPaused)
    \/ NoDisplay(WaitPending) \/ NoDisplay(WaitContinue) \/ NoDisplay(WaitClear)
    \/ NoDisplay(ClearInterrupted) \/ DispatchShown \/ ReturnShown(ShellExit)
    \/ NoDisplay(CheckInterrupted) \/ NoDisplay(Evaluate) \/ NoDisplay(PlanCheck)
    \/ NoDisplay(Finally)
    \/ ReturnShown(AgentLine) \/ ReturnShown(AgentExit)
    \/ NoDisplay(ManualStop) \/ NoDisplay(ManualAsk) \/ NoDisplay(ManualUnpause)
    \/ ManualStartShown \/ ManualPromptShown \/ NoDisplay(ManualDone)
    \/ NoDisplay(KeyPress(Keys)) \/ NoDisplay(HandlerInterrupt)
    \/ NoDisplay(HandlerSetPaused) \/ NoDisplay(HandlerSetManual)

SpecDisplay == InitDisplay /\ [][NextDisplay]_vars

\* The executor and the listener thread, with the loop thread scheduled
\* fairly: a statement the loop thread can execute is executed
FairWorkflows == { << Step("shell", None, FALSE) >> }

InitFair == InitWith(FairWorkflows)

LoopStep ==
    NoDisplay(\/ StartListener \/ WhilePhase(MaxPhases) \/ WhileStep
              \/ CheckManual \/ WaitPaused \/ WaitPending \/ WaitContinue
              \/ WaitClear \/ ClearInterrupted \/ Dispatch \/ CheckInterrupted
              \/ Evaluate \/ PlanCheck \/ Finally \/ ManualStop \/ ManualAsk
              \/ ManualUnpause \/ ManualStart \/ ManualPrompt \/ ManualDone)

SpecFair == InitFair /\ [][Next]_vars /\ WF_vars(LoopStep)

\* Runs to their end, up to the phase ceiling, with both threads scheduled
\* fairly and every invocation ending: a workflow of one shell step with
\* skip_if_clean, agent invocations through the manual prompt
LiveWorkflows == { << SkipIfClean(Step("shell", None, FALSE)) >> }

InitLive == InitWith(LiveWorkflows)

NextLive ==
    \/ NoDisplay(StartListener) \/ NoDisplay(WhilePhase(max_phases))
    \/ NoDisplay(WhileStep) \/ NoDisplay(CheckManual) \/ NoDisplay(WaitPaused)
    \/ NoDisplay(WaitPending) \/ NoDisplay(WaitContinue) \/ NoDisplay(WaitClear)
    \/ NoDisplay(ClearInterrupted) \/ NoDisplay(Dispatch) \/ NoDisplay(ShellExit)
    \/ NoDisplay(ShellRaises)
    \/ NoDisplay(CheckInterrupted) \/ NoDisplay(Evaluate) \/ NoDisplay(PlanCheck)
    \/ NoDisplay(Finally)
    \/ NoDisplay(AgentLine) \/ NoDisplay(AgentExit)
    \/ NoDisplay(ManualStop) \/ NoDisplay(ManualAsk) \/ NoDisplay(ManualUnpause)
    \/ NoDisplay(ManualStart) \/ NoDisplay(ManualPrompt) \/ NoDisplay(ManualDone)
    \/ NoDisplay(KeyPress(Keys)) \/ NoDisplay(HandlerInterrupt)
    \/ NoDisplay(HandlerSetPaused) \/ NoDisplay(HandlerSetManual)

LiveLoopStep ==
    NoDisplay(\/ StartListener \/ WhilePhase(max_phases) \/ WhileStep
              \/ CheckManual \/ WaitPaused \/ WaitPending \/ WaitContinue
              \/ WaitClear \/ ClearInterrupted \/ Dispatch \/ CheckInterrupted
              \/ Evaluate \/ PlanCheck \/ Finally \/ ManualStop \/ ManualAsk
              \/ ManualUnpause \/ ManualStart \/ ManualPrompt \/ ManualDone)

HandlerStep ==
    NoDisplay(HandlerInterrupt \/ HandlerSetPaused \/ HandlerSetManual)

InvocationEnds == NoDisplay(ShellExit \/ ShellRaises \/ AgentExit)

SpecLive ==
    /\ InitLive /\ [][NextLive]_vars
    /\ WF_vars(LiveLoopStep) /\ WF_vars(HandlerStep) /\ WF_vars(InvocationEnds)

\* The step executor called for one step after the other, with and without
\* auto_push, with and without a variable of the workflow
InitStep ==
    /\ InitEngine({ScenarioWorkflow})
    /\ InitSteps(BOOLEAN, Bindings)
    /\ InitOrchestrator({FALSE})
    /\ InitKeyboard

NextStep == ExecuteClaudeStep \/ ExecuteShellStep

SpecStep == InitStep /\ [][NextStep]_vars

\* One Orchestrator: run is called once (__main__.py:132, tui.py:238), stop
\* at any time, with and without auto_commit
InitOrch ==
    /\ InitEngine({ScenarioWorkflow})
    /\ InitSteps({TRUE}, {BuiltinVariables})
    /\ InitOrchestrator(BOOLEAN)
    /\ InitKeyboard

NextOrch ==
    \/ RunStart \/ ImplementReturns \/ VerificationReturns \/ CommitReturns
    \/ RunRaises \/ Stop

SpecOrch == InitOrch /\ [][NextOrch]_vars

\* Calls of run and run_shell on a ClaudeRunner, one after the other
\* The keyboard controller on its own, with the slot and the flags its
\* callback writes
InitKeyboardOnly == InitWith({ScenarioWorkflow})

NextKeyboard ==
    \/ KbStart \/ KbStop \/ KbJoin
    \/ \E t \in Thread :
         \/ ListenTest(t) \/ ListenInkey(t) \/ ListenPublish(t) \/ ListenHandler(t)

SpecKeyboard == InitKeyboardOnly /\ [][NextKeyboard]_vars

InitRunner == InitWith({ScenarioWorkflow})

NextRunner ==
    \/ CallRun \/ RunLine \/ RunExit
    \/ CallRunShell \/ ShellCheck \/ ShellNext \/ ShellLine \/ ShellCmdExit
    \/ Return

SpecRunner == InitRunner /\ [][NextRunner]_vars

====
